---- MODULE Spec2Model ----
(***************************************************************************)
(* Rule applicability engine of the compliance backend:                    *)
(*   - call_openrouter / check_norm_applies (the applicability classifier) *)
(*   - match_norms / match_norms_streaming (the evaluation orchestrator)   *)
(*   - PackageManager.get_user_packages / get_allowed_databases /          *)
(*     _is_package_accessible (the entitlement resolver)                   *)
(*                                                                         *)
(* Four specifications share the variables of the module:                  *)
(*   Spec          one evaluation (batch or streaming) over a worker pool  *)
(*   SpecClassify  one check_norm_applies call on one service outcome      *)
(*   SpecAccess    one _is_package_accessible call on one record           *)
(*   SpecEntitle   entitlement resolution over the store and the cache     *)
(***************************************************************************)
EXTENDS Integers, Sequences, FiniteSets, TLC

VARIABLES
    \* ---- evaluation orchestrator (match_norms, match_norms_streaming)
    mode,             \* "batch" (match_norms) or "streaming" (match_norms_streaming)
    norms,            \* the rules returned by load_norms
    max_workers,      \* width of the ThreadPoolExecutor
    futures,          \* per rule: state of its Future
    finish_order,     \* finished futures not yet handed out, oldest first
    pending_first,    \* of these, the ones finished before as_completed started
    yielded,          \* futures as_completed has handed to the loop
    completed,        \* the loop's counter
    matched_results,  \* results that apply (match_norms: results)
    all_results,      \* every collected result (streaming only)
    events,           \* what the generator has yielded so far
    returned,         \* the list match_norms returned
    pc,               \* position of the evaluation
    \* ---- classifier (call_openrouter, check_norm_applies)
    c_transport,      \* what the HTTP exchange with the service produced
    c_api,            \* the dict call_openrouter returned
    c_result,         \* what check_norm_applies returned or raised
    c_pc,
    \* ---- accessibility of one record (_is_package_accessible)
    a_package,        \* the record under test
    a_now,            \* datetime.now() at the call
    a_result,         \* the value returned
    a_pc,
    \* ---- entitlement resolution (get_user_packages, get_allowed_databases)
    store,            \* rows of table user_packages of the tenant
    redis,            \* the Redis client: present or None, and its keys
    now,              \* current time, in seconds
    e_pc,             \* position of the get_allowed_databases call
    e_active,         \* its active_packages
    e_trial,          \* its trial_packages
    e_used,           \* where each get_user_packages call got its rows from
    e_result,         \* the value get_allowed_databases returned, and when
    \* ---- calls running next to the resolution (SpecInvalidate)
    k_reader,         \* a get_user_packages call: position, status, rows read
    k_mut,            \* an activate_package / deactivate_package call
    \* ---- rule partitions (load_norms, NormDatabaseCache)
    n_disk,           \* partition file name -> what the data directory holds
    n_cache,          \* NormDatabaseCache._cache
    n_invalidated,    \* partitions invalidated since the last load call
    n_reads,          \* per partition: disk reads since its last invalidation
    n_calls,          \* the load calls made one after the other, with results
    n_lock,           \* NormDatabaseCache._lock: the thread holding it
    n_threads,        \* the threads inside get_norms: position and locals
    \* ---- usage attribution (_get_package_for_database)
    u_store,          \* the user_packages rows of the tenant, in store order
    u_database,       \* database_name
    u_packages,       \* packages
    u_result,         \* the value returned
    u_pc,             \* position of the call
    \* ---- concurrent activations (SpecActivate)
    w_calls           \* the activate_package calls: position and locals

mVars == <<mode, norms, max_workers, futures, finish_order, pending_first,
           yielded, completed, matched_results, all_results, events,
           returned, pc>>
cVars == <<c_transport, c_api, c_result, c_pc>>
aVars == <<a_package, a_now, a_result, a_pc>>
eVars == <<store, redis, now, e_pc, e_active, e_trial, e_used, e_result>>
kVars == <<k_reader, k_mut>>
nVars == <<n_disk, n_cache, n_invalidated, n_reads, n_calls, n_lock, n_threads>>
uVars == <<u_store, u_database, u_packages, u_result, u_pc>>
wVars == <<w_calls>>
xVars == <<kVars, nVars, uVars, wVars>>
vars == <<mVars, cVars, aVars, eVars, xVars>>

-----------------------------------------------------------------------------
(* Bounds of the model *)

MaxRules == 2
MaxPool == 2
MaxLines == 3
MaxTime == 2
MaxRows == 2
MaxCalls == 2
MaxThreads == 2
MaxWebhooks == 2

-----------------------------------------------------------------------------
(* Generic helpers *)

Range(s) == {s[i] : i \in 1..Len(s)}

RECURSIVE SeqsUpTo(_, _)
SeqsUpTo(S, n) ==
    IF n = 0 THEN {<<>>}
    ELSE LET shorter == SeqsUpTo(S, n - 1)
         IN shorter \cup {Append(s, x) : s \in {t \in shorter : Len(t) = n - 1}, x \in S}

-----------------------------------------------------------------------------
(* Text of a service response.  A text is a sequence of tokens: a token is  *)
(* a maximal piece of the string that the parsing code cannot tell apart    *)
(* (a label, a word, one digit, one blank, one line break).                 *)

NL == "NL"                       \* the line break "\n"
SP == " "
Whitespace == {SP, NL}
DecimalDigits == {"0", "1", "2", "3", "4", "5", "6", "7", "8", "9"}
SUP2 == "sup2"                   \* a character such as U+00B2: isdigit() is
                                 \* true of it and int() rejects it
LabelTokens == {"APPLIES:", "CONFIDENCE:", "Confidence:", "REASONING:"}
WordTokens == {"yes", "Yes", "no", "w", "%"}

\* str.upper() of a token
StrUpper(t) ==
    CASE t = "Confidence:" -> "CONFIDENCE:"
      [] t = "yes" -> "YES"
      [] t = "Yes" -> "YES"
      [] t = "no" -> "NO"
      [] t = "w" -> "W"
      [] OTHER -> t

\* str.lower() of a token
StrLower(t) ==
    CASE t = "Confidence:" -> "confidence:"
      [] t = "CONFIDENCE:" -> "confidence:"
      [] t = "APPLIES:" -> "applies:"
      [] t = "REASONING:" -> "reasoning:"
      [] t = "Yes" -> "yes"
      [] OTHER -> t

\* needle in line.upper()
InUpper(needle, line) == \E i \in 1..Len(line) : StrUpper(line[i]) = needle

\* needle in line.lower()
InLower(needle, line) == \E i \in 1..Len(line) : StrLower(line[i]) = needle

\* the tokens that contain a colon
HasColon(t) == t \in LabelTokens \/ t = ":"

\* str.isdigit of one character
IsDigit(t) == t \in DecimalDigits \/ t = SUP2

RECURSIVE LStrip(_)
LStrip(s) ==
    IF s # <<>> /\ Head(s) \in Whitespace THEN LStrip(Tail(s)) ELSE s

RECURSIVE RStrip(_)
RStrip(s) ==
    IF s # <<>> /\ s[Len(s)] \in Whitespace THEN RStrip(SubSeq(s, 1, Len(s) - 1)) ELSE s

\* str.strip()
StrStrip(s) == RStrip(LStrip(s))

\* str.split("\n"): the pieces between line breaks, at least one piece
RECURSIVE StrSplitLines(_, _)
StrSplitLines(s, cur) ==
    IF s = <<>> THEN <<cur>>
    ELSE IF Head(s) = NL THEN <<cur>> \o StrSplitLines(Tail(s), <<>>)
         ELSE StrSplitLines(Tail(s), Append(cur, Head(s)))

\* line.split(":", 1)[1]: what follows the first colon of the line
RECURSIVE AfterFirstColon(_)
AfterFirstColon(line) ==
    IF line = <<>> THEN <<>>
    ELSE IF HasColon(Head(line)) THEN Tail(line)
         ELSE AfterFirstColon(Tail(line))

\* ''.join(filter(str.isdigit, line))
FilterDigits(line) == SelectSeq(line, IsDigit)

DigitValue(t) ==
    CASE t = "0" -> 0 [] t = "1" -> 1 [] t = "2" -> 2 [] t = "3" -> 3
      [] t = "4" -> 4 [] t = "5" -> 5 [] t = "6" -> 6 [] t = "7" -> 7
      [] t = "8" -> 8 [] t = "9" -> 9

RECURSIVE DecimalValue(_, _)
DecimalValue(ds, acc) ==
    IF ds = <<>> THEN acc
    ELSE DecimalValue(Tail(ds), 10 * acc + DigitValue(Head(ds)))

\* An int(s) that reads the empty string as 0 and skips what is no decimal digit
IntParseLenient(ds) ==
    [ok |-> TRUE,
     value |-> DecimalValue(SelectSeq(ds, LAMBDA t : t \in DecimalDigits), 0)]

\* int(s) of a string of isdigit characters: ValueError on the empty string
\* and on a character that is no decimal digit
IntParse(ds) ==
    IF ds = <<>> \/ \E i \in 1..Len(ds) : ds[i] \notin DecimalDigits
    THEN [ok |-> FALSE, value |-> 0]
    ELSE [ok |-> TRUE, value |-> DecimalValue(ds, 0)]

\* " ".join(parts)
RECURSIVE JoinWith(_, _)
JoinWith(parts, sep) ==
    IF parts = <<>> THEN <<>>
    ELSE IF Len(parts) = 1 THEN parts[1]
         ELSE parts[1] \o <<sep>> \o JoinWith(Tail(parts), sep)

-----------------------------------------------------------------------------
(* call_openrouter: the outcome of the HTTP exchange is the input *)

NoMessage == ""

\* What the exchange with the service can produce
TransportKinds ==
    {"no_key",        \* OPENROUTER_API_KEY is not set
     "timeout",       \* requests.exceptions.Timeout
     "exception",     \* any other exception of requests.post / response.json
     "status",        \* a status code other than 200
     "no_choices",    \* status 200, no 'choices' or an empty list
     "null_content",  \* status 200, content null: len(content) raises
     "text",          \* status 200, content a string
     "nontext"}       \* status 200, content a list of parts, not a string

Transport(kind, content, code, message) ==
    [kind |-> kind, content |-> content, status_code |-> code, message |-> message]

call_openrouter(t) ==
    CASE t.kind = "no_key" ->
           [success |-> FALSE, error |-> <<"OpenRouter API key not configured">>]
      [] t.kind = "timeout" ->
           [success |-> FALSE, error |-> <<"Request timed out after 30 seconds">>]
      [] t.kind \in {"exception", "null_content"} ->
           [success |-> FALSE, error |-> <<"API call failed: ", t.message>>]
      [] t.kind = "status" ->
           [success |-> FALSE,
            error |-> IF t.message # NoMessage THEN <<t.message>>
                      ELSE <<"API returned status ", ToString(t.status_code)>>]
      [] t.kind = "no_choices" ->
           [success |-> FALSE, error |-> <<"Unexpected API response structure">>]
      [] t.kind = "text" ->
           [success |-> TRUE, content |-> [is_str |-> TRUE, text |-> t.content]]
      [] t.kind = "nontext" ->
           [success |-> TRUE, content |-> [is_str |-> FALSE, text |-> t.content]]

-----------------------------------------------------------------------------
(* check_norm_applies *)

NoKey == "<no key>"
DefaultConfidence == 50

Returned(v) == [raised |-> FALSE, value |-> v]
Raised(e) == [raised |-> TRUE, exc |-> e]

\* The loop over the lines: st = the loop's variables before line i
RECURSIVE ParseLines(_, _, _)
ParseLines(lines, i, st) ==
    IF i > Len(lines) THEN st
    ELSE
      LET line == lines[i]
          parsed == IntParse(FilterDigits(line))
          conf == IF InUpper("CONFIDENCE:", line)
                  THEN IF parsed.ok THEN parsed.value ELSE DefaultConfidence
                  ELSE st.confidence
          rest == StrStrip(AfterFirstColon(line))
          st2 == IF InUpper("REASONING:", line)
                 THEN [confidence |-> conf,
                       reasoning_started |-> TRUE,
                       reasoning_parts |->
                           IF rest # <<>> THEN Append(st.reasoning_parts, rest)
                           ELSE st.reasoning_parts]
                 ELSE IF st.reasoning_started /\ StrStrip(line) # <<>>
                 THEN [confidence |-> conf,
                       reasoning_started |-> TRUE,
                       reasoning_parts |-> Append(st.reasoning_parts, StrStrip(line))]
                 ELSE [confidence |-> conf,
                       reasoning_started |-> st.reasoning_started,
                       reasoning_parts |-> st.reasoning_parts]
      IN ParseLines(lines, i + 1, st2)

\* Lines 102-139: the parse of a successful response
ParseResponse(norm, response) ==
    LET lines == StrSplitLines(StrStrip(response), <<>>)
        applies == InLower("yes", lines[1])
        st == ParseLines(lines, 1,
                         [confidence |-> DefaultConfidence,
                          reasoning_started |-> FALSE,
                          reasoning_parts |-> <<>>])
    IN [norm_id |-> norm.id,
        norm_name |-> norm.name,
        applies |-> applies,
        confidence |-> st.confidence,
        reasoning |-> JoinWith(st.reasoning_parts, SP),
        url |-> norm.url]

\* check_norm_applies without the test of result["success"]
check_norm_applies_unchecked(norm, t) ==
    LET result == call_openrouter(t)
    IN IF ~result.success THEN Returned(ParseResponse(norm, <<>>))
       ELSE IF ~result.content.is_str THEN Raised("AttributeError")
       ELSE Returned(ParseResponse(norm, result.content.text))

check_norm_applies(norm, t) ==
    LET result == call_openrouter(t)
    IN IF ~result.success
       THEN Returned([norm_id |-> norm.id,
                      norm_name |-> norm.name,
                      applies |-> FALSE,
                      confidence |-> 0,
                      reasoning |-> <<"Error: ">> \o result.error,
                      url |-> NoKey])
       ELSE IF ~result.content.is_str
       THEN Raised("AttributeError")     \* response.strip() on a non-string
       ELSE Returned(ParseResponse(norm, result.content.text))

-----------------------------------------------------------------------------
(* Package definitions (package_manager.py) *)

ALL_DATABASE_FILES ==
    {"norms.json", "norms_us.json", "norms_china.json", "norms_japan.json",
     "norms_iso.json", "norms_iec.json", "norms_uk.json", "norms_canada.json",
     "norms_australia.json", "norms_brazil.json", "norms_india.json",
     "norms_uae_gcc.json", "norms_eu_additional.json",
     "norms_industry_automotive.json", "norms_industry_medical.json",
     "norms_industry_electronics.json", "norms_industry_food.json",
     "norms_industry_construction.json", "norms_industry_energy.json"}

FREE_DATABASES == {"norms.json"}

PackageTypes ==
    {"iso_box", "asia_box", "us_box", "industry_automotive", "industry_medical",
     "mega_bundle"}

\* PACKAGES[package_type]['databases']; all = the special value 'all'
PACKAGES(package_type) ==
    CASE package_type = "iso_box" ->
           [all |-> FALSE, databases |-> {"norms_iso.json", "norms_iec.json"}]
      [] package_type = "asia_box" ->
           [all |-> FALSE,
            databases |-> {"norms_china.json", "norms_japan.json", "norms_india.json",
                           "norms_uae_gcc.json"}]
      [] package_type = "us_box" ->
           [all |-> FALSE, databases |-> {"norms_us.json"}]
      [] package_type = "industry_automotive" ->
           [all |-> FALSE, databases |-> {"norms_industry_automotive.json"}]
      [] package_type = "industry_medical" ->
           [all |-> FALSE, databases |-> {"norms_industry_medical.json"}]
      [] package_type = "mega_bundle" ->
           [all |-> TRUE, databases |-> {}]

-----------------------------------------------------------------------------
(* Time and timestamps.  Time is counted in seconds, in steps of half the    *)
(* cache lifetime.  A timestamp field of a record is null, an ISO string     *)
(* for a time, or a string datetime.fromisoformat rejects.                   *)

CacheTtlSeconds == 300
TickSeconds == CacheTtlSeconds \div 2
Times == {k * TickSeconds : k \in 0..MaxTime}

Null == [kind |-> "null", t |-> 0]
BadTimestamp == [kind |-> "bad", t |-> 0]
Iso(t) == [kind |-> "iso", t |-> t]
Timestamps == {Null, BadTimestamp} \cup {Iso(t) : t \in Times}

\* datetime.fromisoformat(s.replace('Z', '+00:00')): ValueError on a bad string
FromIsoFormat(ts) ==
    IF ts.kind = "iso" THEN [ok |-> TRUE, t |-> ts.t] ELSE [ok |-> FALSE, t |-> 0]

-----------------------------------------------------------------------------
(* PackageManager._is_package_accessible *)

PackageRecord(package_type, status, is_trial, expires_at, trial_end) ==
    [package_type |-> package_type, status |-> status, is_trial |-> is_trial,
     expires_at |-> expires_at, trial_end |-> trial_end]

\* _is_package_accessible whose last branch grants access
is_package_accessible_default_open(package, t_now) ==
    IF package.status = "active"
    THEN IF package.expires_at = Null THEN TRUE
         ELSE LET expiry_date == FromIsoFormat(package.expires_at)
              IN IF expiry_date.ok THEN expiry_date.t > t_now ELSE TRUE
    ELSE IF package.status = "trial" /\ package.is_trial
    THEN LET trial_end_date == FromIsoFormat(package.trial_end)
         IN trial_end_date.ok /\ trial_end_date.t > t_now
    ELSE TRUE

\* _is_package_accessible with the expiry compared by >=
is_package_accessible_inclusive(package, t_now) ==
    IF package.status = "active"
    THEN IF package.expires_at = Null THEN TRUE
         ELSE LET expiry_date == FromIsoFormat(package.expires_at)
              IN IF expiry_date.ok THEN expiry_date.t >= t_now ELSE TRUE
    ELSE IF package.status = "trial" /\ package.is_trial
    THEN LET trial_end_date == FromIsoFormat(package.trial_end)
         IN trial_end_date.ok /\ trial_end_date.t >= t_now
    ELSE FALSE

is_package_accessible(package, t_now) ==
    IF package.status = "active"
    THEN IF package.expires_at = Null THEN TRUE
         ELSE LET expiry_date == FromIsoFormat(package.expires_at)
              IN IF expiry_date.ok
                 THEN expiry_date.t > t_now
                 ELSE TRUE                       \* except: return True
    ELSE IF package.status = "trial" /\ package.is_trial
    THEN IF package.trial_end # Null
         THEN LET trial_end_date == FromIsoFormat(package.trial_end)
              IN IF trial_end_date.ok
                 THEN trial_end_date.t > t_now
                 ELSE FALSE                      \* except: pass
         ELSE FALSE
    ELSE FALSE

-----------------------------------------------------------------------------
(* PackageManager.get_allowed_databases: the loop over all_packages *)

\* The loop with each package's databases replacing the set built so far
RECURSIVE ResolveLoopOverwrite(_, _, _, _)
ResolveLoopOverwrite(all_packages, i, databases, t_now) ==
    IF i > Len(all_packages) THEN databases
    ELSE LET pkg == all_packages[i]
         IN IF ~is_package_accessible(pkg, t_now)
            THEN ResolveLoopOverwrite(all_packages, i + 1, databases, t_now)
            ELSE IF pkg.package_type \notin PackageTypes
            THEN ResolveLoopOverwrite(all_packages, i + 1, databases, t_now)
            ELSE IF PACKAGES(pkg.package_type).all
            THEN ALL_DATABASE_FILES
            ELSE ResolveLoopOverwrite(all_packages, i + 1,
                     FREE_DATABASES \cup PACKAGES(pkg.package_type).databases, t_now)

\* The loop with the bundle returning only when it is the first package
RECURSIVE ResolveLoopBundleFirst(_, _, _, _)
ResolveLoopBundleFirst(all_packages, i, databases, t_now) ==
    IF i > Len(all_packages) THEN databases
    ELSE LET pkg == all_packages[i]
         IN IF ~is_package_accessible(pkg, t_now)
            THEN ResolveLoopBundleFirst(all_packages, i + 1, databases, t_now)
            ELSE IF pkg.package_type \notin PackageTypes
            THEN ResolveLoopBundleFirst(all_packages, i + 1, databases, t_now)
            ELSE IF PACKAGES(pkg.package_type).all
            THEN IF i = 1 THEN ALL_DATABASE_FILES
                 ELSE ResolveLoopBundleFirst(all_packages, i + 1, databases, t_now)
            ELSE ResolveLoopBundleFirst(all_packages, i + 1,
                     databases \cup PACKAGES(pkg.package_type).databases, t_now)

\* The loop of lines 375-392 from package i on; ALL when the mega bundle returns
RECURSIVE ResolveLoop(_, _, _, _)
ResolveLoop(all_packages, i, databases, t_now) ==
    IF i > Len(all_packages) THEN databases
    ELSE LET pkg == all_packages[i]
         IN IF ~is_package_accessible(pkg, t_now)
            THEN ResolveLoop(all_packages, i + 1, databases, t_now)
            ELSE IF pkg.package_type \notin PackageTypes
            THEN ResolveLoop(all_packages, i + 1, databases, t_now)
            ELSE IF PACKAGES(pkg.package_type).all
            THEN ALL_DATABASE_FILES
            ELSE ResolveLoop(all_packages, i + 1,
                             databases \cup PACKAGES(pkg.package_type).databases, t_now)

\* The value of get_allowed_databases for active_packages + trial_packages
AllowedDatabases(all_packages, t_now) ==
    ResolveLoop(all_packages, 1, FREE_DATABASES, t_now)

-----------------------------------------------------------------------------
(* Values of the variables of a specification that is not running *)

Idle == "idle"
NoValue == [none |-> TRUE]

MIdle ==
    /\ mode = Idle /\ norms = <<>> /\ max_workers = 1
    /\ futures = <<>> /\ finish_order = <<>> /\ pending_first = {}
    /\ yielded = {} /\ completed = 0
    /\ matched_results = <<>> /\ all_results = <<>> /\ events = <<>>
    /\ returned = NoValue /\ pc = Idle

CIdle ==
    /\ c_transport = NoValue /\ c_api = NoValue /\ c_result = NoValue /\ c_pc = Idle

AIdle ==
    /\ a_package = NoValue /\ a_now = 0 /\ a_result = NoValue /\ a_pc = Idle

EIdle ==
    /\ store = <<>> /\ redis = NoValue /\ now = 0 /\ e_pc = Idle
    /\ e_active = <<>> /\ e_trial = <<>> /\ e_used = NoValue
    /\ e_result = NoValue

KIdle ==
    /\ k_reader = NoValue /\ k_mut = NoValue

NIdle ==
    /\ n_disk = NoValue /\ n_cache = NoValue /\ n_invalidated = {}
    /\ n_reads = NoValue /\ n_calls = <<>> /\ n_lock = NoValue
    /\ n_threads = NoValue

UIdle ==
    /\ u_store = NoValue /\ u_database = NoValue /\ u_packages = NoValue
    /\ u_result = NoValue /\ u_pc = Idle

WIdle == w_calls = NoValue

XIdle == KIdle /\ NIdle /\ UIdle /\ WIdle

-----------------------------------------------------------------------------
(* SpecClassify: one check_norm_applies call *)

\* The rule of the call (a Rule record of the corpus: id, name, url)
TheNorm == [id |-> 1, name |-> "norm-1", url |-> ""]

\* The lines a response is made of
ResponseLines ==
    {<<"APPLIES:", SP, "yes">>,
     <<"APPLIES:", SP, "no">>,
     <<SP, "Yes", SP>>,
     <<"CONFIDENCE:", SP, "8", "7">>,
     <<"Confidence:", SP, "8", "7", "%">>,
     <<"CONFIDENCE:", SP, "1", "5", "0">>,
     <<"CONFIDENCE:", SP, "8", "5", SP, "w", SP, "1", "0", "0">>,
     <<"CONFIDENCE:", SP, "w">>,
     <<"CONFIDENCE:", SP, SUP2>>,
     <<"REASONING:", SP, "w">>,
     <<"REASONING:">>,
     <<"w", SP, "1">>,
     <<SP>>}

\* "\n".join(lines)
ResponseTexts == {JoinWith(ls, NL) : ls \in SeqsUpTo(ResponseLines, MaxLines)}

FailureTransports ==
    {Transport("no_key", <<>>, 0, NoMessage),
     Transport("timeout", <<>>, 0, NoMessage),
     Transport("exception", <<>>, 0, "Connection refused"),
     Transport("null_content", <<>>, 200, "object of type 'NoneType' has no len()"),
     Transport("status", <<>>, 500, NoMessage),
     Transport("status", <<>>, 429, "Rate limit exceeded"),
     Transport("no_choices", <<>>, 200, NoMessage)}

SuccessTransports ==
    {Transport("text", txt, 200, NoMessage) : txt \in ResponseTexts}
    \cup {Transport("nontext", <<"w">>, 200, NoMessage)}

Transports == FailureTransports \cup SuccessTransports

CInit ==
    /\ c_transport \in Transports
    /\ c_api = NoValue
    /\ c_result = NoValue
    /\ c_pc = "call"

\* check_norm_applies(product_description, norm) on the outcome c_transport
CheckNormApplies ==
    /\ c_pc = "call"
    /\ c_api' = call_openrouter(c_transport)
    /\ c_result' = check_norm_applies(TheNorm, c_transport)
    /\ c_pc' = "done"
    /\ UNCHANGED <<c_transport, mVars, aVars, eVars, xVars>>

InitClassify == CInit /\ MIdle /\ AIdle /\ EIdle /\ XIdle
NextClassify == CheckNormApplies
SpecClassify == InitClassify /\ [][NextClassify]_vars

-----------------------------------------------------------------------------
(* Spec: match_norms and match_norms_streaming *)

Norm(i) == [id |-> i, name |-> "norm", url |-> ""]

\* What the service exchange of one classification task can produce
TaskTransports ==
    {Transport("timeout", <<>>, 0, NoMessage),
     Transport("text", <<"APPLIES:", SP, "yes", NL, "CONFIDENCE:", SP, "8", "7">>, 200, NoMessage),
     Transport("text", <<"APPLIES:", SP, "yes">>, 200, NoMessage),
     Transport("nontext", <<"w">>, 200, NoMessage)}

Total == Len(norms)
Futures == 1..Total

Running == {f \in Futures : futures[f].state = "RUNNING"}
Pending == {f \in Futures : futures[f].state = "PENDING"}
Finished == {f \in Futures : futures[f].state = "FINISHED"}

\* results.sort(key=lambda x: x["confidence"], reverse=True): a stable sort
RECURSIVE InsertByConfidence(_, _)
InsertByConfidence(sorted, x) ==
    IF sorted = <<>> THEN <<x>>
    ELSE IF Head(sorted).confidence >= x.confidence
         THEN <<Head(sorted)>> \o InsertByConfidence(Tail(sorted), x)
         ELSE <<x>> \o sorted

RECURSIVE SortAscending(_)
SortAscending(s) ==
    IF s = <<>> THEN <<>>
    ELSE LET rest == SortAscending(SubSeq(s, 1, Len(s) - 1))
             x == s[Len(s)]
             before == SelectSeq(rest, LAMBDA r : r.confidence <= x.confidence)
             after == SelectSeq(rest, LAMBDA r : r.confidence > x.confidence)
         IN before \o <<x>> \o after

RECURSIVE SortByConfidence(_)
SortByConfidence(s) ==
    IF s = <<>> THEN <<>>
    ELSE InsertByConfidence(SortByConfidence(SubSeq(s, 1, Len(s) - 1)), s[Len(s)])

ProgressEvent(c, t, id) ==
    [type |-> "progress", completed |-> c, total |-> t, norm_id |-> id]
CompleteEvent(m, a) ==
    [type |-> "complete", matched_results |-> m, all_results |-> a]

\* An as_completed that hands out only the futures finished when it started
NextCompletedInitialOnly == pending_first

\* The futures as_completed can hand out next: those that had finished when it
\* started, in any order, then the others in the order they finish
NextCompleted ==
    IF pending_first # {} THEN pending_first
    ELSE IF finish_order = <<>> THEN {} ELSE {Head(finish_order)}

\* One pass of the loop body of match_norms_streaming on future f (lines 232-248)
StreamingBodyNoExcept(f) ==
    LET out == futures[f].outcome
        c == completed + 1
    IN IF out.raised
       THEN [completed |-> c, matched |-> matched_results, all |-> all_results,
             events |-> events, propagated |-> TRUE]
       ELSE [completed |-> c,
             matched |-> IF out.value.applies THEN Append(matched_results, out.value)
                         ELSE matched_results,
             all |-> Append(all_results, out.value),
             events |-> Append(events, ProgressEvent(c, Total, norms[f].id)),
             propagated |-> FALSE]

StreamingBodySilentExcept(f) ==
    LET out == futures[f].outcome
    IN IF out.raised
       THEN [completed |-> completed, matched |-> matched_results, all |-> all_results,
             events |-> events, propagated |-> FALSE]
       ELSE StreamingBodyNoExcept(f)

StreamingBody(f) ==
    LET out == futures[f].outcome
        c == completed + 1
    IN IF out.raised
       THEN \* except Exception: log, still yield progress
            [completed |-> c, matched |-> matched_results, all |-> all_results,
             events |-> Append(events, ProgressEvent(c, Total, norms[f].id)),
             propagated |-> FALSE]
       ELSE [completed |-> c,
             matched |-> IF out.value.applies THEN Append(matched_results, out.value)
                         ELSE matched_results,
             all |-> Append(all_results, out.value),
             events |-> Append(events, ProgressEvent(c, Total, norms[f].id)),
             propagated |-> FALSE]

\* One pass of the loop body of match_norms on future f (lines 173-189);
\* the callers in this repository pass no progress_callback
BatchBody(f) ==
    LET out == futures[f].outcome
        c == completed + 1
    IN IF out.raised
       THEN [completed |-> c, matched |-> matched_results, all |-> all_results,
             events |-> events, propagated |-> FALSE]
       ELSE [completed |-> c,
             matched |-> IF out.value.applies THEN Append(matched_results, out.value)
                         ELSE matched_results,
             all |-> all_results,
             events |-> events,
             propagated |-> FALSE]

MInit ==
    /\ mode \in {"batch", "streaming"}
    /\ \E n \in 0..MaxRules : norms = [i \in 1..n |-> Norm(i)]
    /\ max_workers \in 1..MaxPool
    /\ futures = [i \in 1..Len(norms) |-> [state |-> "NEW"]]
    /\ finish_order = <<>>
    /\ pending_first = {}
    /\ yielded = {}
    /\ completed = 0
    /\ matched_results = <<>>
    /\ all_results = <<>>
    /\ events = <<>>
    /\ returned = NoValue
    /\ pc = "start"

\* executor.submit(check_norm_applies, product_description, norm) for norm in norms
SubmitAll ==
    /\ pc = "start"
    /\ futures' = [i \in Futures |-> [state |-> "PENDING"]]
    /\ pc' = "submitted"
    /\ UNCHANGED <<mode, norms, max_workers, finish_order, pending_first, yielded,
                   completed, matched_results, all_results, events, returned>>
    /\ UNCHANGED <<cVars, aVars, eVars, xVars>>

\* A pool that starts a queued task whether or not a worker thread is free
TaskStartUnbounded(f) ==
    /\ pc \in {"submitted", "collecting"}
    /\ f \in Pending
    /\ futures' = [futures EXCEPT ![f] = [state |-> "RUNNING"]]
    /\ UNCHANGED <<mode, norms, max_workers, finish_order, pending_first, yielded,
                   completed, matched_results, all_results, events, returned, pc>>
    /\ UNCHANGED <<cVars, aVars, eVars, xVars>>

\* A worker thread of the pool takes the oldest queued task
TaskStart(f) ==
    /\ pc \in {"submitted", "collecting"}
    /\ f \in Pending
    /\ \A g \in Pending : f <= g
    /\ Cardinality(Running) < max_workers
    /\ futures' = [futures EXCEPT ![f] = [state |-> "RUNNING"]]
    /\ UNCHANGED <<mode, norms, max_workers, finish_order, pending_first, yielded,
                   completed, matched_results, all_results, events, returned, pc>>
    /\ UNCHANGED <<cVars, aVars, eVars, xVars>>

\* check_norm_applies(product_description, norm) for each rule and each outcome
\* of the exchange with the service
TaskOutcomes ==
    [n \in {Norm(i) : i \in 1..MaxRules}, t \in TaskTransports |->
        check_norm_applies(n, t)]

\* check_norm_applies returns or raises in its worker thread
TaskFinish(f, t) ==
    /\ pc \in {"submitted", "collecting"}
    /\ f \in Running
    /\ futures' = [futures EXCEPT ![f] =
                      [state |-> "FINISHED", outcome |-> TaskOutcomes[norms[f], t]]]
    /\ finish_order' = Append(finish_order, f)
    /\ UNCHANGED <<mode, norms, max_workers, pending_first, yielded,
                   completed, matched_results, all_results, events, returned, pc>>
    /\ UNCHANGED <<cVars, aVars, eVars, xVars>>

\* as_completed(future_to_norm) starts: it notes the futures already finished
StartAsCompleted ==
    /\ pc = "submitted"
    /\ pending_first' = Finished
    /\ pc' = "collecting"
    /\ UNCHANGED <<mode, norms, max_workers, futures, finish_order, yielded,
                   completed, matched_results, all_results, events, returned>>
    /\ UNCHANGED <<cVars, aVars, eVars, xVars>>

\* One iteration of "for future in as_completed(future_to_norm)"
Collect(f) ==
    /\ pc = "collecting"
    /\ f \in NextCompleted
    /\ LET r == IF mode = "streaming" THEN StreamingBody(f) ELSE BatchBody(f)
       IN /\ completed' = r.completed
          /\ matched_results' = r.matched
          /\ all_results' = r.all
          /\ events' = r.events
          /\ pc' = IF r.propagated THEN "aborted" ELSE pc
    /\ yielded' = yielded \cup {f}
    /\ pending_first' = pending_first \ {f}
    /\ finish_order' = SelectSeq(finish_order, LAMBDA g : g # f)
    /\ UNCHANGED <<mode, norms, max_workers, futures, returned>>
    /\ UNCHANGED <<cVars, aVars, eVars, xVars>>

\* as_completed is exhausted: leave the with block, sort, return or yield complete
Finish ==
    /\ pc = "collecting"
    /\ yielded = Futures
    /\ matched_results' = SortByConfidence(matched_results)
    /\ IF mode = "streaming"
       THEN /\ events' = Append(events, CompleteEvent(matched_results', all_results))
            /\ UNCHANGED returned
       ELSE /\ returned' = [results |-> matched_results']
            /\ UNCHANGED events
    /\ pc' = "done"
    /\ UNCHANGED <<mode, norms, max_workers, futures, finish_order, pending_first,
                   yielded, completed, all_results>>
    /\ UNCHANGED <<cVars, aVars, eVars, xVars>>

Init == MInit /\ CIdle /\ AIdle /\ EIdle /\ XIdle

Next ==
    \/ SubmitAll
    \/ \E f \in Futures : TaskStart(f)
    \/ \E f \in Futures, t \in TaskTransports : TaskFinish(f, t)
    \/ StartAsCompleted
    \/ \E f \in Futures : Collect(f)
    \/ Finish

Spec == Init /\ [][Next]_vars

\* The evaluation does not stop for ever while a step can be taken: the
\* caller's thread and the worker threads run on, and every call_openrouter
\* returns or fails (timeout=30)
SpecFair == Spec /\ WF_vars(Next)


-----------------------------------------------------------------------------
(* SpecAccess: _is_package_accessible on one record, and the loop of         *)
(* get_allowed_databases on the list holding that record                     *)

Statuses == {"active", "trial", "expired", "cancelled"}

PackageRecords ==
    {PackageRecord(package_type, status, is_trial, expires_at, trial_end) :
        package_type \in {"us_box", "mega_bundle", "custom_box"},
        status \in Statuses,
        is_trial \in BOOLEAN, expires_at \in Timestamps, trial_end \in Timestamps}

AInit ==
    /\ a_package \in PackageRecords
    /\ a_now \in Times
    /\ a_result = NoValue
    /\ a_pc = "start"

IsPackageAccessible ==
    /\ a_pc = "start"
    /\ a_result' = [accessible |-> is_package_accessible(a_package, a_now),
                    databases |-> NoValue]
    /\ a_pc' = "checked"
    /\ UNCHANGED <<a_package, a_now, mVars, cVars, eVars, xVars>>

ResolveRecord ==
    /\ a_pc = "checked"
    /\ a_result' = [a_result EXCEPT
                      !.databases = AllowedDatabases(<<a_package>>, a_now)]
    /\ a_pc' = "done"
    /\ UNCHANGED <<a_package, a_now, mVars, cVars, eVars, xVars>>

InitAccess == AInit /\ MIdle /\ CIdle /\ EIdle /\ XIdle
NextAccess == IsPackageAccessible \/ ResolveRecord
SpecAccess == InitAccess /\ [][NextAccess]_vars

-----------------------------------------------------------------------------
(* PackageManager.get_user_packages *)

Missing == [missing |-> TRUE]
CacheKeys == {"active", "trial"}     \* user_packages:{user_id}:{status}

\* json.dumps / json.loads of a list of rows
JsonDumps(packages) == [json |-> packages]
JsonLoads(text) == text.json

\* .eq('status', status) on the rows of the tenant
SelectStatus(rows, status) == SelectSeq(rows, LAMBDA r : r.status = status)

Outcomes == {"ok", "raises"}
\* What the calls made by one get_user_packages do: redis.get, execute, redis.setex
Envs == [get : Outcomes, query : Outcomes, setex : Outcomes]

\* get_user_packages that answers a failed query with every row of the tenant
get_user_packages_all_rows(r, rows, status, env) ==
    IF r.present /\ env.get = "ok" /\ r.data[status] # Missing
    THEN [packages |-> JsonLoads(r.data[status].text), redis |-> r,
          source |-> "cache"]
    ELSE IF env.query = "raises"
    THEN [packages |-> rows, redis |-> r, source |-> "failed"]
    ELSE [packages |-> SelectStatus(rows, status), redis |-> r, source |-> "store"]

\* get_user_packages that gives up when the cache write raises
get_user_packages_needs_cache(r, rows, status, env) ==
    IF r.present /\ env.get = "ok" /\ r.data[status] # Missing
    THEN [packages |-> JsonLoads(r.data[status].text), redis |-> r,
          source |-> "cache"]
    ELSE IF env.query = "raises"
    THEN [packages |-> <<>>, redis |-> r, source |-> "failed"]
    ELSE IF r.present /\ env.setex = "raises"
    THEN [packages |-> <<>>, redis |-> r, source |-> "store"]
    ELSE [packages |-> SelectStatus(rows, status),
          redis |-> IF r.present
                    THEN [r EXCEPT !.data[status] =
                            [text |-> JsonDumps(SelectStatus(rows, status)),
                             ttl |-> CacheTtlSeconds]]
                    ELSE r,
          source |-> "store"]

\* [packages: the list returned, redis: the cache afterwards, source]
get_user_packages(r, rows, status, env) ==
    IF r.present /\ env.get = "ok" /\ r.data[status] # Missing
    THEN [packages |-> JsonLoads(r.data[status].text), redis |-> r,
          source |-> "cache"]
    ELSE IF env.query = "raises"
    THEN [packages |-> <<>>, redis |-> r, source |-> "failed"]
    ELSE LET packages == SelectStatus(rows, status)
         IN [packages |-> packages,
             redis |-> IF r.present /\ env.setex = "ok"
                       THEN [r EXCEPT !.data[status] =
                               [text |-> JsonDumps(packages),
                                ttl |-> CacheTtlSeconds]]
                       ELSE r,
             source |-> "store"]

-----------------------------------------------------------------------------
(* SpecEntitle: get_allowed_databases of one tenant, with the store, the     *)
(* cache and the clock                                                       *)

StoreRows ==
    {PackageRecord("us_box", "active", FALSE, Null, Null),
     PackageRecord("us_box", "active", FALSE, Iso(TickSeconds), Null),
     PackageRecord("iso_box", "trial", TRUE, Null, Iso(TickSeconds)),
     PackageRecord("mega_bundle", "active", FALSE, Null, Null),
     PackageRecord("mega_bundle", "cancelled", FALSE, Null, Null)}

NoSource == "none"

EInit ==
    /\ store \in SeqsUpTo(StoreRows, MaxRows)
    /\ \E present \in BOOLEAN :
         redis = [present |-> present, data |-> [k \in CacheKeys |-> Missing]]
    /\ now = 0
    /\ e_pc = Idle
    /\ e_active = <<>> /\ e_trial = <<>>
    /\ e_used = [k \in CacheKeys |-> NoSource]
    /\ e_result = NoValue

\* get_allowed_databases is called
Begin ==
    /\ e_pc \in {Idle, "done"}
    /\ e_pc' = "active"
    /\ e_active' = <<>> /\ e_trial' = <<>>
    /\ e_used' = [k \in CacheKeys |-> NoSource]
    /\ e_result' = NoValue
    /\ UNCHANGED <<store, redis, now, mVars, cVars, aVars, xVars>>

\* active_packages = self.get_user_packages(user_id, status='active')
GetActive ==
    /\ e_pc = "active"
    /\ \E env \in Envs :
         LET got == get_user_packages(redis, store, "active", env)
         IN /\ e_active' = got.packages
            /\ redis' = got.redis
            /\ e_used' = [e_used EXCEPT !["active"] = got.source]
    /\ e_pc' = "trial"
    /\ UNCHANGED <<store, now, e_trial, e_result, mVars, cVars, aVars, xVars>>

\* trial_packages = self.get_user_packages(user_id, status='trial')
GetTrial ==
    /\ e_pc = "trial"
    /\ \E env \in Envs :
         LET got == get_user_packages(redis, store, "trial", env)
         IN /\ e_trial' = got.packages
            /\ redis' = got.redis
            /\ e_used' = [e_used EXCEPT !["trial"] = got.source]
    /\ e_pc' = "resolve"
    /\ UNCHANGED <<store, now, e_active, e_result, mVars, cVars, aVars, xVars>>

\* the loop over active_packages + trial_packages and the return
Resolve ==
    /\ e_pc = "resolve"
    /\ e_result' = [databases |-> AllowedDatabases(e_active \o e_trial, now),
                    at |-> now]
    /\ e_pc' = "done"
    /\ UNCHANGED <<store, redis, now, e_active, e_trial, e_used, mVars, cVars, aVars, xVars>>

\* Time passes; Redis drops the keys whose lifetime is over
Tick ==
    /\ now < MaxTime * TickSeconds
    /\ now' = now + TickSeconds
    /\ redis' = [redis EXCEPT !.data =
                   [k \in CacheKeys |->
                      IF redis.data[k] = Missing THEN Missing
                      ELSE IF redis.data[k].ttl <= TickSeconds THEN Missing
                      ELSE [redis.data[k] EXCEPT !.ttl = @ - TickSeconds]]]
    /\ UNCHANGED <<store, e_pc, e_active, e_trial, e_used, e_result,
                   mVars, cVars, aVars, xVars>>

InitEntitle == EInit /\ MIdle /\ CIdle /\ AIdle /\ XIdle
NextEntitle == Begin \/ GetActive \/ GetTrial \/ Resolve \/ Tick
SpecEntitle == InitEntitle /\ [][NextEntitle]_vars

-----------------------------------------------------------------------------
(* SpecInvalidate: one activate_package or deactivate_package call, one      *)
(* get_user_packages call running next to it step by step, and the           *)
(* get_allowed_databases calls that start after the mutation returned        *)

\* timedelta(days=30) and the packages' trial_days (14), in seconds
SubscriptionSeconds == 30 * 86400
TrialSeconds == 14 * 86400

\* package_data of activate_package
ActivatedRow(package_type, is_trial, t_now) ==
    IF is_trial
    THEN PackageRecord(package_type, "trial", TRUE, Null, Iso(t_now + TrialSeconds))
    ELSE PackageRecord(package_type, "active", FALSE,
                       Iso(t_now + SubscriptionSeconds), Null)

\* update(...).eq('package_type', package_type).eq('status', 'active')
CancelActive(rows, package_type) ==
    [j \in 1..Len(rows) |->
        IF rows[j].package_type = package_type /\ rows[j].status = "active"
        THEN [rows[j] EXCEPT !.status = "cancelled"]
        ELSE rows[j]]

\* redis.delete that leaves the key in place
RedisDeleteNothing(r, key) == r

\* redis.delete(key)
RedisDelete(r, key) == [r EXCEPT !.data[key] = Missing]

\* The store is written while the reader holds rows it has yet to cache
Overtaken(reader) ==
    IF reader.pc = "setex" THEN [reader EXCEPT !.overtaken = TRUE] ELSE reader

\* redis.setex(key, 300, json.dumps(packages))
RedisSetex(r, key, packages) ==
    [r EXCEPT !.data[key] = [text |-> JsonDumps(packages), ttl |-> CacheTtlSeconds]]

InvalidateStores == {<<>>} \cup {<<r>> : r \in StoreRows}

KInit ==
    /\ store \in InvalidateStores
    /\ \E present \in BOOLEAN :
         redis = [present |-> present, data |-> [k \in CacheKeys |-> Missing]]
    /\ now = 0
    /\ e_pc = Idle
    /\ e_active = <<>> /\ e_trial = <<>>
    /\ e_used = [k \in CacheKeys |-> NoSource]
    /\ e_result = NoValue
    /\ k_reader = [pc |-> Idle, status |-> "active", packages |-> <<>>,
                   overtaken |-> FALSE]
    /\ k_mut = [pc |-> Idle, op |-> "none", package_type |-> "none",
                is_trial |-> FALSE, existing |-> <<>>, deletes |-> "none",
                outcome |-> "none"]

\* get_user_packages, lines 324-331: the cache is tried first
ReaderStart ==
    /\ k_reader.pc = Idle
    /\ \E status \in CacheKeys, get \in Outcomes :
         IF redis.present /\ get = "ok" /\ redis.data[status] # Missing
         THEN k_reader' = [pc |-> "done", status |-> status,
                           packages |-> JsonLoads(redis.data[status].text),
                           overtaken |-> FALSE]
         ELSE k_reader' = [pc |-> "query", status |-> status, packages |-> <<>>,
                           overtaken |-> FALSE]
    /\ UNCHANGED <<eVars, k_mut, mVars, cVars, aVars, nVars, uVars, wVars>>

\* lines 334-342: the store is queried
ReaderQuery ==
    /\ k_reader.pc = "query"
    /\ \E query \in Outcomes :
         IF query = "raises"
         THEN k_reader' = [k_reader EXCEPT !.pc = "done", !.packages = <<>>]
         ELSE k_reader' = [k_reader EXCEPT
                             !.pc = IF redis.present THEN "setex" ELSE "done",
                             !.packages = SelectStatus(store, k_reader.status)]
    /\ UNCHANGED <<eVars, k_mut, mVars, cVars, aVars, nVars, uVars, wVars>>

\* lines 345-351: the rows read are cached and returned
ReaderSetex ==
    /\ k_reader.pc = "setex"
    /\ \E setex \in Outcomes :
         redis' = IF setex = "ok"
                  THEN RedisSetex(redis, k_reader.status, k_reader.packages)
                  ELSE redis
    /\ k_reader' = [k_reader EXCEPT !.pc = "done"]
    /\ UNCHANGED <<store, now, e_pc, e_active, e_trial, e_used, e_result, k_mut,
                   mVars, cVars, aVars, nVars, uVars, wVars>>

\* activate_package or deactivate_package is called
MutStart ==
    /\ k_mut.pc = Idle
    /\ \E op \in {"activate", "deactivate"},
          package_type \in {"us_box", "iso_box", "mega_bundle"},
          is_trial \in BOOLEAN :
         /\ op = "deactivate" => ~is_trial
         /\ k_mut' = [pc |-> IF op = "activate" THEN "check_active" ELSE "update",
                      op |-> op, package_type |-> package_type,
                      is_trial |-> is_trial, existing |-> <<>>,
                      deletes |-> "none", outcome |-> "none"]
    /\ UNCHANGED <<eVars, k_reader, mVars, cVars, aVars, nVars, uVars, wVars>>

\* activate_package, lines 500-507: the packages the tenant already has
ActivateCheck ==
    /\ k_mut.pc \in {"check_active", "check_trial"}
    /\ \E env \in Envs :
         LET status == IF k_mut.pc = "check_active" THEN "active" ELSE "trial"
             got == get_user_packages(redis, store, status, env)
             existing == k_mut.existing \o got.packages
             has == \E j \in 1..Len(existing) :
                       existing[j].package_type = k_mut.package_type
         IN /\ redis' = got.redis
            /\ k_mut' = IF k_mut.pc = "check_active"
                        THEN [k_mut EXCEPT !.pc = "check_trial",
                                           !.existing = existing]
                        ELSE IF has
                        THEN [k_mut EXCEPT !.pc = "returned", !.existing = existing,
                                           !.outcome = "raised"]
                        ELSE [k_mut EXCEPT !.pc = "insert", !.existing = existing]
    /\ UNCHANGED <<store, now, e_pc, e_active, e_trial, e_used, e_result, k_reader,
                   mVars, cVars, aVars, nVars, uVars, wVars>>

\* activate_package, lines 549-550 and 572-574: the row is inserted
ActivateInsert ==
    /\ k_mut.pc = "insert"
    /\ \E insert \in Outcomes :
         IF insert = "raises"
         THEN /\ k_mut' = [k_mut EXCEPT !.pc = "returned", !.outcome = "raised"]
              /\ UNCHANGED <<store, k_reader>>
         ELSE /\ store' = Append(store, ActivatedRow(k_mut.package_type,
                                                     k_mut.is_trial, now))
              /\ k_reader' = Overtaken(k_reader)
              /\ k_mut' = IF redis.present
                          THEN [k_mut EXCEPT !.pc = "del_active"]
                          ELSE [k_mut EXCEPT !.pc = "returned", !.outcome = "ok"]
    /\ UNCHANGED <<redis, now, e_pc, e_active, e_trial, e_used, e_result,
                   mVars, cVars, aVars, nVars, uVars, wVars>>

\* deactivate_package, lines 591-600 and 618-620: the active rows are cancelled
DeactivateUpdate ==
    /\ k_mut.pc = "update"
    /\ \E update \in Outcomes :
         IF update = "raises"
         THEN /\ k_mut' = [k_mut EXCEPT !.pc = "returned", !.outcome = "false"]
              /\ UNCHANGED <<store, k_reader>>
         ELSE /\ store' = CancelActive(store, k_mut.package_type)
              /\ k_reader' = Overtaken(k_reader)
              /\ k_mut' = IF redis.present
                          THEN [k_mut EXCEPT !.pc = "del_active"]
                          ELSE [k_mut EXCEPT !.pc = "returned", !.outcome = "ok"]
    /\ UNCHANGED <<redis, now, e_pc, e_active, e_trial, e_used, e_result,
                   mVars, cVars, aVars, nVars, uVars, wVars>>

\* lines 553-558 and 603-607: the keys are deleted inside try / except: pass;
\* deactivate_package deletes the key of the active rows only
MutDelete ==
    /\ k_mut.pc \in {"del_active", "del_trial"}
    /\ \E delete \in Outcomes :
         IF delete = "raises"
         THEN /\ redis' = redis
              /\ k_mut' = [k_mut EXCEPT !.pc = "returned", !.outcome = "ok",
                                        !.deletes = "raised"]
         ELSE IF k_mut.pc = "del_active"
         THEN /\ redis' = RedisDelete(redis, "active")
              /\ k_mut' = IF k_mut.op = "activate"
                          THEN [k_mut EXCEPT !.pc = "del_trial"]
                          ELSE [k_mut EXCEPT !.pc = "returned", !.outcome = "ok",
                                             !.deletes = "ok"]
         ELSE /\ redis' = RedisDelete(redis, "trial")
              /\ k_mut' = [k_mut EXCEPT !.pc = "returned", !.outcome = "ok",
                                        !.deletes = "ok"]
    /\ UNCHANGED <<store, now, e_pc, e_active, e_trial, e_used, e_result, k_reader,
                   mVars, cVars, aVars, nVars, uVars, wVars>>

\* get_allowed_databases is called after the mutation returned successfully
BeginAfterMutation ==
    /\ k_mut.pc = "returned" /\ k_mut.outcome = "ok"
    /\ Begin

InitInvalidate == KInit /\ MIdle /\ CIdle /\ AIdle /\ NIdle /\ UIdle /\ WIdle
NextInvalidate ==
    \/ ReaderStart \/ ReaderQuery \/ ReaderSetex
    \/ MutStart \/ ActivateCheck \/ ActivateInsert \/ DeactivateUpdate \/ MutDelete
    \/ BeginAfterMutation \/ GetActive \/ GetTrial \/ Resolve
SpecInvalidate == InitInvalidate /\ [][NextInvalidate]_vars

-----------------------------------------------------------------------------
(* Partition files, load_norms and NormDatabaseCache._load_from_disk *)

Partitions == {"norms.json", "norms_us.json"}

\* An entry of a file's "norms" list: a rule object, or a value that is no dict
RuleItem(id) == [dict |-> TRUE, id |-> id]
ScalarItem == [dict |-> FALSE, id |-> 0]

\* What the data directory holds under a name: no file, a file json.load
\* rejects, or a JSON document with a norms list
FileMissing == [kind |-> "missing", norms |-> <<>>]
FileInvalid == [kind |-> "invalid_json", norms |-> <<>>]
JsonFile(items) == [kind |-> "json", norms |-> items]

\* The files the data directory can hold under a name
FileContents(db_name) ==
    IF db_name = "norms.json"
    THEN {JsonFile(<<RuleItem(1)>>)}
    ELSE {FileMissing, FileInvalid,
          JsonFile(<<RuleItem(2), RuleItem(3)>>),
          JsonFile(<<RuleItem(3)>>),
          JsonFile(<<RuleItem(2), ScalarItem>>)}

\* for norm in norms: norm['source_database'] = db_name  (TypeError on a
\* value that is no dict)
TagNorms(items, db_name) ==
    IF \E j \in 1..Len(items) : ~items[j].dict
    THEN [ok |-> FALSE, norms |-> <<>>]
    ELSE [ok |-> TRUE,
          norms |-> [j \in 1..Len(items) |->
                       [id |-> items[j].id, source_database |-> db_name]]]

\* The rules one file yields; <<>> for a missing or a broken file
ReadPartition(disk, db_name) ==
    IF disk[db_name].kind = "missing" THEN <<>>
    ELSE IF disk[db_name].kind = "invalid_json" THEN <<>>
    ELSE LET tagged == TagNorms(disk[db_name].norms, db_name)
         IN IF tagged.ok THEN tagged.norms ELSE <<>>

\* NormDatabaseCache._load_from_disk
load_from_disk(disk, database_name) == ReadPartition(disk, database_name)

\* The argument database_names: None or a list
NoNames == [is_none |-> TRUE, list |-> <<>>]
Names(list) == [is_none |-> FALSE, list |-> list]

\* load_norms that stops at the first partition it cannot read
RECURSIVE load_norms_until_broken(_, _, _, _)
load_norms_until_broken(disk, names, i, all_norms) ==
    IF i > Len(names) THEN all_norms
    ELSE IF disk[names[i]].kind # "json" \/ ~TagNorms(disk[names[i]].norms, names[i]).ok
    THEN all_norms
    ELSE load_norms_until_broken(disk, names, i + 1,
                                 all_norms \o ReadPartition(disk, names[i]))

\* load_norms, the loop of lines 31-51 from name i on
RECURSIVE load_norms_loop(_, _, _, _)
load_norms_loop(disk, names, i, all_norms) ==
    IF i > Len(names) THEN all_norms
    ELSE load_norms_loop(disk, names, i + 1,
                         all_norms \o ReadPartition(disk, names[i]))

load_norms(disk, database_names) ==
    LET names == IF database_names.is_none THEN <<"norms.json">>
                 ELSE database_names.list
    IN load_norms_loop(disk, names, 1, <<>>)

-----------------------------------------------------------------------------
(* NormDatabaseCache.get_norms and invalidate, run by one thread *)

Absent == [absent |-> TRUE]

\* get_norms that reads a partition again when the cached list is empty
RECURSIVE get_norms_loop_retry_empty(_, _, _, _, _, _)
get_norms_loop_retry_empty(disk, cache, reads, names, i, all_norms) ==
    IF i > Len(names) THEN [cache |-> cache, reads |-> reads, all_norms |-> all_norms]
    ELSE LET db_name == names[i]
             miss == cache[db_name] = Absent \/ cache[db_name].norms = <<>>
             cache2 == IF miss
                       THEN [cache EXCEPT ![db_name] =
                               [norms |-> load_from_disk(disk, db_name)]]
                       ELSE cache
             reads2 == IF miss THEN [reads EXCEPT ![db_name] = @ + 1] ELSE reads
         IN get_norms_loop_retry_empty(disk, cache2, reads2, names, i + 1,
                                       all_norms \o cache2[db_name].norms)

\* get_norms from name i on: [cache, reads, all_norms]
RECURSIVE get_norms_loop(_, _, _, _, _, _)
get_norms_loop(disk, cache, reads, names, i, all_norms) ==
    IF i > Len(names) THEN [cache |-> cache, reads |-> reads, all_norms |-> all_norms]
    ELSE LET db_name == names[i]
             miss == cache[db_name] = Absent
             cache2 == IF miss
                       THEN [cache EXCEPT ![db_name] =
                               [norms |-> load_from_disk(disk, db_name)]]
                       ELSE cache
             reads2 == IF miss THEN [reads EXCEPT ![db_name] = @ + 1] ELSE reads
         IN get_norms_loop(disk, cache2, reads2, names, i + 1,
                           all_norms \o cache2[db_name].norms)

get_norms(disk, cache, reads, database_names) ==
    get_norms_loop(disk, cache, reads, database_names, 1, <<>>)

\* invalidate(database_name): one partition, or all when the name is None
InvalidateTargets == Partitions \cup {"<all>"}
invalidated(target) == IF target = "<all>" THEN Partitions ELSE {target}

-----------------------------------------------------------------------------
(* SpecLoad: load_norms and get_norms calls made one after the other, while  *)
(* the files change and the cache is invalidated                             *)

NameLists ==
    {<<"norms_us.json">>, <<"norms_us.json", "norms.json">>}

Disks == {disk \in [Partitions -> UNION {FileContents(db) : db \in Partitions}] :
             \A db \in Partitions : disk[db] \in FileContents(db)}

LInit ==
    /\ n_disk \in Disks
    /\ n_cache = [db \in Partitions |-> Absent]
    /\ n_invalidated = {}
    /\ n_reads = [db \in Partitions |-> 0]
    /\ n_calls = <<>>
    /\ n_lock = NoValue
    /\ n_threads = NoValue

Remember(call) == Append(n_calls, call)

\* A call as n_calls keeps it: fresh = the partitions invalidated since the
\* call before, disk_same = no file has changed since the call
CallRecord(fn, names, cold, result) ==
    [fn |-> fn, names |-> names, cold |-> cold, fresh |-> n_invalidated,
     disk_same |-> TRUE, result |-> result]

\* norms = load_norms(allowed_databases)
CallLoadNorms ==
    /\ Len(n_calls) < MaxCalls
    /\ \E arg \in {NoNames} \cup {Names(l) : l \in NameLists} :
         n_calls' = Remember(CallRecord("load_norms",
                        IF arg.is_none THEN <<"norms.json">> ELSE arg.list,
                        TRUE, load_norms(n_disk, arg)))
    /\ n_invalidated' = {}
    /\ UNCHANGED <<n_disk, n_cache, n_reads, n_lock, n_threads,
                   mVars, cVars, aVars, eVars, kVars, uVars, wVars>>

\* _norm_cache.get_norms(database_names)
CallGetNorms ==
    /\ Len(n_calls) < MaxCalls
    /\ \E names \in NameLists :
         LET got == get_norms(n_disk, n_cache, n_reads, names)
         IN /\ n_cache' = got.cache
            /\ n_reads' = got.reads
            /\ n_calls' = Remember(CallRecord("get_norms", names,
                              \A j \in 1..Len(names) : n_cache[names[j]] = Absent,
                              got.all_norms))
    /\ n_invalidated' = {}
    /\ UNCHANGED <<n_disk, n_lock, n_threads,
                   mVars, cVars, aVars, eVars, kVars, uVars, wVars>>

\* A partition file is replaced, removed or damaged
DiskChange ==
    /\ n_calls # <<>> /\ Len(n_calls) < MaxCalls
    /\ \E db \in Partitions : \E content \in FileContents(db) :
         /\ content # n_disk[db]
         /\ n_disk' = [n_disk EXCEPT ![db] = content]
    /\ n_calls' = [j \in 1..Len(n_calls) |-> [n_calls[j] EXCEPT !.disk_same = FALSE]]
    /\ UNCHANGED <<n_cache, n_invalidated, n_reads, n_lock, n_threads,
                   mVars, cVars, aVars, eVars, kVars, uVars, wVars>>

\* invalidate_norm_cache(database_name)
CallInvalidate ==
    /\ n_calls # <<>> /\ Len(n_calls) < MaxCalls
    /\ \E target \in InvalidateTargets :
         /\ ~(invalidated(target) \subseteq n_invalidated)
         /\ n_cache' = [db \in Partitions |->
                          IF db \in invalidated(target) THEN Absent ELSE n_cache[db]]
         /\ n_invalidated' = n_invalidated \cup invalidated(target)
         /\ n_reads' = [db \in Partitions |->
                          IF db \in invalidated(target) THEN 0 ELSE n_reads[db]]
    /\ UNCHANGED <<n_disk, n_calls, n_lock, n_threads,
                   mVars, cVars, aVars, eVars, kVars, uVars, wVars>>

InitLoad == LInit /\ MIdle /\ CIdle /\ AIdle /\ EIdle /\ KIdle /\ UIdle /\ WIdle
NextLoad == CallLoadNorms \/ CallGetNorms \/ DiskChange \/ CallInvalidate
SpecLoad == InitLoad /\ [][NextLoad]_vars

-----------------------------------------------------------------------------
(* SpecNormCache: threads inside NormDatabaseCache.get_norms, one statement  *)
(* at a time, next to invalidate calls and changes of the files              *)

Threads == 1..MaxThreads
Free == 0

\* norms_us.json when the threads start, and what it is replaced with
OldFile == JsonFile(<<RuleItem(2), RuleItem(3)>>)
NewFile == JsonFile(<<RuleItem(3)>>)

NothingGot == [db \in Partitions |-> Absent]

\* The list every thread asks for
ThreadNames == <<"norms_us.json", "norms.json">>

TInit ==
    /\ n_disk \in {disk \in Disks : disk["norms_us.json"] = OldFile}
    /\ n_cache = [db \in Partitions |-> Absent]
    /\ n_invalidated = {}
    /\ n_reads = [db \in Partitions |-> 0]
    /\ n_calls = <<>>
    /\ n_lock = Free
    /\ n_threads = [t \in Threads |->
                      [pc |-> "check", names |-> ThreadNames, i |-> 1,
                       all_norms |-> <<>>, got |-> NothingGot]]

\* The second test of the double-checked locking, never skipping the load
recheck_always(cache, db_name) == TRUE

\* line 229: if db_name not in self._cache (under the lock)
recheck_miss(cache, db_name) == cache[db_name] = Absent

DbName(t) == n_threads[t].names[n_threads[t].i]

\* line 226: if db_name not in self._cache
ThreadCheck(t) ==
    /\ n_threads[t].pc = "check"
    /\ n_threads' = [n_threads EXCEPT ![t].pc =
                       IF n_cache[DbName(t)] = Absent THEN "acquire" ELSE "extend"]
    /\ UNCHANGED <<n_disk, n_cache, n_invalidated, n_reads, n_calls, n_lock,
                   mVars, cVars, aVars, eVars, kVars, uVars, wVars>>

\* line 227: with self._lock
ThreadAcquire(t) ==
    /\ n_threads[t].pc = "acquire"
    /\ n_lock = Free
    /\ n_lock' = t
    /\ n_threads' = [n_threads EXCEPT ![t].pc = "locked"]
    /\ UNCHANGED <<n_disk, n_cache, n_invalidated, n_reads, n_calls,
                   mVars, cVars, aVars, eVars, kVars, uVars, wVars>>

\* lines 229-231: the second test, the load, and the release of the lock
ThreadLoad(t) ==
    /\ n_threads[t].pc = "locked"
    /\ IF recheck_miss(n_cache, DbName(t))
       THEN /\ n_cache' = [n_cache EXCEPT ![DbName(t)] =
                             [norms |-> load_from_disk(n_disk, DbName(t))]]
            /\ n_reads' = [n_reads EXCEPT ![DbName(t)] = @ + 1]
       ELSE UNCHANGED <<n_cache, n_reads>>
    /\ n_lock' = Free
    /\ n_threads' = [n_threads EXCEPT ![t].pc = "extend"]
    /\ UNCHANGED <<n_disk, n_invalidated, n_calls,
                   mVars, cVars, aVars, eVars, kVars, uVars, wVars>>

\* line 233: all_norms.extend(self._cache[db_name]), KeyError without the key;
\* line 235 after the last name
ThreadExtend(t) ==
    /\ n_threads[t].pc = "extend"
    /\ IF n_cache[DbName(t)] = Absent
       THEN n_threads' = [n_threads EXCEPT ![t].pc = "raised"]
       ELSE n_threads' = [n_threads EXCEPT
              ![t].all_norms = @ \o n_cache[DbName(t)].norms,
              ![t].got = [@ EXCEPT ![DbName(t)] =
                            [norms |-> n_cache[DbName(t)].norms,
                             current |-> TRUE]],
              ![t].i = @ + 1,
              ![t].pc = IF n_threads[t].i = Len(n_threads[t].names)
                        THEN "done" ELSE "check"]
    /\ UNCHANGED <<n_disk, n_cache, n_invalidated, n_reads, n_calls, n_lock,
                   mVars, cVars, aVars, eVars, kVars, uVars, wVars>>

\* What a thread got from a partition invalidated since is not current
Outdated(got, dbs) ==
    [db \in Partitions |->
        IF db \in dbs /\ got[db] # Absent
        THEN [got[db] EXCEPT !.current = FALSE] ELSE got[db]]

\* invalidate(database_name), lines 266-272, under the lock
ThreadInvalidate ==
    /\ n_lock = Free
    /\ \E target \in InvalidateTargets :
         /\ n_cache' = [db \in Partitions |->
                          IF db \in invalidated(target) THEN Absent ELSE n_cache[db]]
         /\ n_reads' = [db \in Partitions |->
                          IF db \in invalidated(target) THEN 0 ELSE n_reads[db]]
         /\ n_threads' = [t \in Threads |->
                            [n_threads[t] EXCEPT
                               !.got = Outdated(@, invalidated(target))]]
    /\ UNCHANGED <<n_disk, n_invalidated, n_calls, n_lock,
                   mVars, cVars, aVars, eVars, kVars, uVars, wVars>>

\* norms_us.json is replaced
ThreadDiskChange ==
    /\ n_disk["norms_us.json"] = OldFile
    /\ n_disk' = [n_disk EXCEPT !["norms_us.json"] = NewFile]
    /\ UNCHANGED <<n_cache, n_invalidated, n_reads, n_calls, n_lock,
                   n_threads, mVars, cVars, aVars, eVars, kVars, uVars, wVars>>

InitNormCache == TInit /\ MIdle /\ CIdle /\ AIdle /\ EIdle /\ KIdle /\ UIdle /\ WIdle
NextNormCache ==
    \/ \E t \in Threads :
         ThreadCheck(t) \/ ThreadAcquire(t) \/ ThreadLoad(t) \/ ThreadExtend(t)
    \/ ThreadInvalidate
    \/ ThreadDiskChange
SpecNormCache == InitNormCache /\ [][NextNormCache]_vars

-----------------------------------------------------------------------------
(* SpecStale: the payment webhook converts a trial row to an active one      *)
(* without invalidating the cache, next to a get_user_packages call; time    *)
(* passes and get_user_packages is called again                              *)

\* update({'status': 'active', 'is_trial': False}).eq('package_type', ...)
\* .eq('status', 'trial') of the update_subscription_status branch
ConvertTrial(rows, package_type) ==
    [j \in 1..Len(rows) |->
        IF rows[j].package_type = package_type /\ rows[j].status = "trial"
        THEN [rows[j] EXCEPT !.status = "active", !.is_trial = FALSE]
        ELSE rows[j]]

\* The keys of Redis after TickSeconds more seconds
Expire(r) ==
    [r EXCEPT !.data =
        [k \in CacheKeys |->
            IF r.data[k] = Missing THEN Missing
            ELSE IF r.data[k].ttl <= TickSeconds THEN Missing
            ELSE [r.data[k] EXCEPT !.ttl = @ - TickSeconds]]]

SInit ==
    /\ store \in {<<PackageRecord("iso_box", "trial", TRUE, Null, Iso(TrialSeconds))>>,
                  <<PackageRecord("us_box", "active", FALSE, Null, Null),
                    PackageRecord("iso_box", "trial", TRUE, Null, Iso(TrialSeconds))>>}
    /\ \E present \in BOOLEAN :
         redis = [present |-> present, data |-> [k \in CacheKeys |-> Missing]]
    /\ now = 0
    /\ e_pc = Idle
    /\ e_active = <<>> /\ e_trial = <<>>
    /\ e_used = [k \in CacheKeys |-> NoSource]
    /\ e_result = NoValue
    /\ k_reader = [pc |-> Idle, status |-> "active", packages |-> <<>>,
                   overtaken |-> FALSE]
    /\ k_mut = [pc |-> Idle, op |-> "none", at |-> 0]

\* payment.py lines 754-757: the row is converted, nothing is invalidated
WebhookConvert ==
    /\ k_mut.pc = Idle
    /\ store' = ConvertTrial(store, "iso_box")
    /\ k_mut' = [pc |-> "returned", op |-> "convert", at |-> now]
    /\ k_reader' = Overtaken(k_reader)
    /\ UNCHANGED <<redis, now, e_pc, e_active, e_trial, e_used, e_result>>
    /\ UNCHANGED <<mVars, cVars, aVars, nVars, uVars, wVars>>

\* Time passes; Redis drops the keys whose lifetime is over
Elapse ==
    /\ now < (MaxTime + 1) * TickSeconds
    /\ now' = now + TickSeconds
    /\ redis' = Expire(redis)
    /\ UNCHANGED <<store, e_pc, e_active, e_trial, e_used, e_result>>
    /\ UNCHANGED <<mVars, cVars, aVars, xVars>>

\* A get_user_packages call made after the conversion
LateLookup ==
    /\ k_mut.pc = "returned"
    /\ \E status \in CacheKeys, env \in Envs :
         LET got == get_user_packages(redis, store, status, env)
         IN /\ redis' = got.redis
            /\ e_result' = [packages |-> got.packages, status |-> status,
                            source |-> got.source, at |-> now]
    /\ e_pc' = "done"
    /\ UNCHANGED <<store, now, e_active, e_trial, e_used>>
    /\ UNCHANGED <<mVars, cVars, aVars, xVars>>

InitStale == SInit /\ MIdle /\ CIdle /\ AIdle /\ NIdle /\ UIdle /\ WIdle
NextStale ==
    \/ ReaderStart \/ ReaderQuery \/ ReaderSetex
    \/ WebhookConvert \/ Elapse \/ LateLookup
SpecStale == InitStale /\ [][NextStale]_vars

-----------------------------------------------------------------------------
(* SpecActivate: activate_package calls for one tenant and one package type *)
(* running next to each other, as when a subscription webhook is delivered  *)
(* more than once                                                           *)

Webhooks == 1..MaxWebhooks
WebhookPackage == "us_box"

\* The rows of the tenant before the calls
ActivateStores ==
    {<<>>,
     <<PackageRecord("iso_box", "trial", TRUE, Null, Iso(TrialSeconds))>>,
     <<PackageRecord(WebhookPackage, "active", FALSE, Iso(SubscriptionSeconds), Null)>>}

WInit ==
    /\ store \in ActivateStores
    /\ \E present \in BOOLEAN :
         redis = [present |-> present, data |-> [k \in CacheKeys |-> Missing]]
    /\ now = 0
    /\ e_pc = Idle
    /\ e_active = <<>> /\ e_trial = <<>>
    /\ e_used = [k \in CacheKeys |-> NoSource]
    /\ e_result = NoValue
    /\ w_calls = [c \in Webhooks |->
                    [pc |-> "check_active", is_trial |-> FALSE, existing |-> <<>>,
                     outcome |-> "none"]]

\* lines 500-501: existing, existing_trial = self.get_user_packages(...); the
\* webhook tells a trial subscription from a paid one
WebhookLookup(c) ==
    /\ w_calls[c].pc \in {"check_active", "check_trial"}
    /\ \E env \in Envs, is_trial \in BOOLEAN :
         LET status == IF w_calls[c].pc = "check_active" THEN "active" ELSE "trial"
             got == get_user_packages(redis, store, status, env)
         IN /\ redis' = got.redis
            /\ w_calls' = [w_calls EXCEPT
                  ![c].existing = @ \o got.packages,
                  ![c].is_trial = IF w_calls[c].pc = "check_active" THEN is_trial ELSE @,
                  ![c].pc = IF w_calls[c].pc = "check_active"
                            THEN "check_trial" ELSE "compare"]
    /\ UNCHANGED <<store, now, e_pc, e_active, e_trial, e_used, e_result>>
    /\ UNCHANGED <<mVars, cVars, aVars, kVars, nVars, uVars>>

\* lines 503-507: PackageAlreadyActiveError when a row of the type was found
WebhookCompare(c) ==
    /\ w_calls[c].pc = "compare"
    /\ w_calls' =
         IF \E j \in 1..Len(w_calls[c].existing) :
                w_calls[c].existing[j].package_type = WebhookPackage
         THEN [w_calls EXCEPT ![c].pc = "returned",
                              ![c].outcome = "PackageAlreadyActiveError"]
         ELSE [w_calls EXCEPT ![c].pc = "insert"]
    /\ UNCHANGED <<eVars, mVars, cVars, aVars, kVars, nVars, uVars>>

\* lines 549-550 and 572-574: the insert, PackageError when it raises
WebhookInsert(c) ==
    /\ w_calls[c].pc = "insert"
    /\ \E insert \in Outcomes :
         IF insert = "raises"
         THEN /\ w_calls' = [w_calls EXCEPT ![c].pc = "returned",
                                            ![c].outcome = "PackageError"]
              /\ UNCHANGED store
         ELSE /\ store' = Append(store, ActivatedRow(WebhookPackage,
                                                     w_calls[c].is_trial, now))
              /\ w_calls' = [w_calls EXCEPT ![c].pc = "invalidate"]
    /\ UNCHANGED <<redis, now, e_pc, e_active, e_trial, e_used, e_result>>
    /\ UNCHANGED <<mVars, cVars, aVars, kVars, nVars, uVars>>

\* lines 553-570: both keys are deleted inside try / except: pass, then the
\* record is returned
WebhookInvalidate(c) ==
    /\ w_calls[c].pc = "invalidate"
    /\ \E first \in Outcomes, second \in Outcomes :
         redis' = IF ~redis.present \/ first = "raises" THEN redis
                  ELSE IF second = "raises" THEN RedisDelete(redis, "active")
                  ELSE RedisDelete(RedisDelete(redis, "active"), "trial")
    /\ w_calls' = [w_calls EXCEPT ![c].pc = "returned", ![c].outcome = "ok"]
    /\ UNCHANGED <<store, now, e_pc, e_active, e_trial, e_used, e_result>>
    /\ UNCHANGED <<mVars, cVars, aVars, kVars, nVars, uVars>>

InitActivate == WInit /\ MIdle /\ CIdle /\ AIdle /\ KIdle /\ NIdle /\ UIdle
NextActivate ==
    \E c \in Webhooks :
        \/ WebhookLookup(c)
        \/ WebhookCompare(c)
        \/ WebhookInsert(c)
        \/ WebhookInvalidate(c)
SpecActivate == InitActivate /\ [][NextActivate]_vars

-----------------------------------------------------------------------------
(* SpecAttribute: one _get_package_for_database call of track_usage *)

\* The rows a tenant can hold here; custom_box is no key of PACKAGES
AttributeRows ==
    {PackageRecord("us_box", "active", FALSE, Null, Null),
     PackageRecord("mega_bundle", "active", FALSE, Null, Null),
     PackageRecord("mega_bundle", "trial", TRUE, Null, Iso(TickSeconds)),
     PackageRecord("iso_box", "trial", TRUE, Null, Iso(TickSeconds)),
     PackageRecord("custom_box", "active", FALSE, Null, Null)}

\* The partitions usage is tracked for
AttributeDatabases == {"norms.json", "norms_us.json", "norms_iso.json"}

\* self.redis is None
NoRedis == [present |-> FALSE, data |-> [k \in CacheKeys |-> Missing]]

\* The package_type None of a usage record
NoPackage == "<None>"

\* The loop of lines 673-684 from package i on, and the return None after it
RECURSIVE AttributeLoop(_, _, _)
AttributeLoop(packages, i, database_name) ==
    IF i > Len(packages) THEN NoPackage
    ELSE LET pkg_type == packages[i].package_type
         IN IF pkg_type \notin PackageTypes
            THEN AttributeLoop(packages, i + 1, database_name)
            ELSE IF PACKAGES(pkg_type).all
            THEN pkg_type
            ELSE IF database_name \in PACKAGES(pkg_type).databases
            THEN pkg_type
            ELSE AttributeLoop(packages, i + 1, database_name)

UInit ==
    /\ u_store \in SeqsUpTo(AttributeRows, MaxRows)
    /\ u_database \in AttributeDatabases
    /\ u_packages = <<>>
    /\ u_result = NoPackage
    /\ u_pc = "start"

\* if database_name in FREE_DATABASES: return None
AttributeStart ==
    /\ u_pc = "start"
    /\ IF u_database \in FREE_DATABASES
       THEN u_result' = NoPackage /\ u_pc' = "done"
       ELSE u_pc' = "active" /\ UNCHANGED u_result
    /\ UNCHANGED <<u_store, u_database, u_packages>>
    /\ UNCHANGED <<mVars, cVars, aVars, eVars, kVars, nVars, wVars>>

\* packages = self.get_user_packages(user_id, status='active')
AttributeGetActive ==
    /\ u_pc = "active"
    /\ \E env \in Envs :
         u_packages' = get_user_packages(NoRedis, u_store, "active", env).packages
    /\ u_pc' = "trial"
    /\ UNCHANGED <<u_store, u_database, u_result>>
    /\ UNCHANGED <<mVars, cVars, aVars, eVars, kVars, nVars, wVars>>

\* packages.extend(self.get_user_packages(user_id, status='trial'))
AttributeGetTrial ==
    /\ u_pc = "trial"
    /\ \E env \in Envs :
         u_packages' =
             u_packages \o get_user_packages(NoRedis, u_store, "trial", env).packages
    /\ u_pc' = "loop"
    /\ UNCHANGED <<u_store, u_database, u_result>>
    /\ UNCHANGED <<mVars, cVars, aVars, eVars, kVars, nVars, wVars>>

\* the for loop and the return
AttributeReturn ==
    /\ u_pc = "loop"
    /\ u_result' = AttributeLoop(u_packages, 1, u_database)
    /\ u_pc' = "done"
    /\ UNCHANGED <<u_store, u_database, u_packages>>
    /\ UNCHANGED <<mVars, cVars, aVars, eVars, kVars, nVars, wVars>>

InitAttribute == UInit /\ MIdle /\ CIdle /\ AIdle /\ EIdle /\ KIdle /\ NIdle /\ WIdle
NextAttribute ==
    \/ AttributeStart
    \/ AttributeGetActive
    \/ AttributeGetTrial
    \/ AttributeReturn
SpecAttribute == InitAttribute /\ [][NextAttribute]_vars

-----------------------------------------------------------------------------
(* Claims about the orchestrator, checked under Spec *)

\* The complete event of a finished streaming evaluation
TheComplete == events[Len(events)]

\* The matched list the caller receives at the end
FinalMatched ==
    IF mode = "streaming" THEN TheComplete.matched_results ELSE returned.results

ReturnedFutures == {f \in Finished : ~futures[f].outcome.raised}
RaisedFutures == {f \in Finished : futures[f].outcome.raised}

\* C1: the all_results of the complete event of match_norms_streaming holds
\* one result for each loaded rule, also for rules whose task raised.
C1_AllResultsOnePerRule ==
    (mode = "streaming" /\ pc = "done") =>
        Len(TheComplete.all_results) = Total

\* The evaluation is not stuck: a task is running (it returns or raises), or a
\* step of the pool or of the collecting loop can be taken
CanGoOn ==
    \/ pc \in {"start", "submitted"}
    \/ /\ pc = "collecting"
       /\ \/ Running # {}
          \/ Pending # {} /\ Cardinality(Running) < max_workers
          \/ NextCompleted # {}
          \/ yielded = Futures

\* C2: an exception raised by a classification task never aborts the batch:
\* no exception leaves the loop, the results of the other rules are collected,
\* the evaluation can always go on until match_norms has returned or
\* match_norms_streaming has emitted its complete event.
C2_TaskExceptionNeverAborts ==
    /\ pc # "aborted"
    /\ \A f \in yielded \cap ReturnedFutures :
          /\ mode = "streaming" => futures[f].outcome.value \in Range(all_results)
          /\ futures[f].outcome.value.applies =>
                futures[f].outcome.value \in Range(matched_results)
    /\ pc # "done" => CanGoOn
    /\ pc = "done" =>
          /\ yielded = Futures
          /\ IF mode = "streaming" THEN TheComplete.type = "complete"
             ELSE returned # NoValue

C2_Witness ==
    /\ pc = "done"
    /\ RaisedFutures # {}
    /\ \E f \in ReturnedFutures : futures[f].outcome.value.applies
    /\ mode = "streaming"
    /\ \E f \in RaisedFutures, g \in ReturnedFutures :
          \E i, j \in 1..Total :
              i < j /\ events[i].norm_id = norms[f].id /\ events[j].norm_id = norms[g].id

\* C3: the events of match_norms_streaming are Total progress events, one per
\* rule, with completed = 1, 2, ..., Total and a constant total, then exactly
\* one complete event, which is the last; whether tasks return or raise.
C3_EventSequence ==
    mode = "streaming" =>
        /\ Len(events) <= Total + 1
        /\ \A k \in 1..Len(events) :
              IF k <= Total
              THEN /\ events[k].type = "progress"
                   /\ events[k].completed = k
                   /\ events[k].total = Total
                   /\ \E i \in 1..Total : events[k].norm_id = norms[i].id
                   /\ \A l \in 1..Len(events) :
                         (l <= Total /\ l # k) => events[l].norm_id # events[k].norm_id
              ELSE events[k].type = "complete"
        /\ pc = "done" <=> Len(events) = Total + 1

C3_Witness ==
    /\ mode = "streaming"
    /\ pc = "done"
    /\ Total >= 2
    /\ RaisedFutures # {}
    /\ ReturnedFutures # {}
    /\ events[Total].completed = Total
    /\ Len(events) = Total + 1

\* C4: at the end matched_results holds exactly the collected results whose
\* applies is true, each once and none with applies false, ordered by
\* confidence non-increasing; for the complete event of match_norms_streaming
\* relative to its all_results, and for the list match_norms returns.
C4_MatchedExactlyApplyingSorted ==
    pc = "done" =>
        LET m == FinalMatched
        IN /\ \A k \in 1..(Len(m) - 1) : m[k].confidence >= m[k + 1].confidence
           /\ \A k \in 1..Len(m) :
                 /\ m[k].applies
                 /\ \E f \in ReturnedFutures : futures[f].outcome.value = m[k]
           /\ \A f \in ReturnedFutures :
                 futures[f].outcome.value.applies =>
                     Cardinality({k \in 1..Len(m) : m[k] = futures[f].outcome.value}) = 1
           /\ mode = "streaming" =>
                 LET a == TheComplete.all_results
                 IN /\ \A k \in 1..Len(m) : m[k] \in Range(a)
                    /\ \A i \in 1..Len(a) :
                          a[i].applies =>
                              Cardinality({k \in 1..Len(m) : m[k] = a[i]}) = 1

\* Two applying results collected in increasing confidence
C4_Witness ==
    /\ pc = "done"
    /\ Len(FinalMatched) >= 2
    /\ FinalMatched[1].confidence > FinalMatched[2].confidence
    /\ mode = "streaming"
    /\ \E i, j \in 1..Total :
          /\ i < j
          /\ events[i].norm_id = FinalMatched[2].norm_id
          /\ events[j].norm_id = FinalMatched[1].norm_id

-----------------------------------------------------------------------------
(* Claims about the classifier, checked under SpecClassify *)

FailureKinds == {"no_key", "timeout", "exception", "null_content", "status", "no_choices"}

\* The cause of each failure of the service call, as the caller is to see it
FailureCause(t) ==
    CASE t.kind = "no_key" -> <<"OpenRouter API key not configured">>
      [] t.kind = "timeout" -> <<"Request timed out after 30 seconds">>
      [] t.kind \in {"exception", "null_content"} -> <<"API call failed: ", t.message>>
      [] t.kind = "status" /\ t.message = NoMessage ->
             <<"API returned status ", ToString(t.status_code)>>
      [] t.kind = "status" /\ t.message # NoMessage -> <<t.message>>
      [] t.kind = "no_choices" -> <<"Unexpected API response structure">>

\* The results handed to the caller at the end: the all_results of the
\* complete event, or whatever match_norms returned
HandedOver ==
    IF mode = "streaming" THEN Range(TheComplete.all_results)
    ELSE Range(returned.results)

\* C19: in both modes the caller is handed every collected result, applying
\* or not: the negative results are returned by match_norms as well as by
\* match_norms_streaming.
C19_NegativeResultsReturned ==
    pc = "done" =>
        \A f \in ReturnedFutures : futures[f].outcome.value \in HandedOver

\* C25: the progress events of match_norms_streaming come in the order the
\* tasks finished: each new progress event is for the task that finished
\* first among those not yet reported, also when tasks had finished before
\* as_completed started to wait.
C25_ProgressInCompletionOrder ==
    [][(mode = "streaming" /\ Len(events') = Len(events) + 1
            /\ events'[Len(events')].type = "progress")
          => events'[Len(events')].norm_id = norms[Head(finish_order)].id]_vars

\* C28: at no moment are more than max_workers classification calls in
\* flight, and every loaded rule is submitted to the pool exactly once: there
\* is one future per rule, and a future goes from queued to running to
\* finished and never back.
C28_PoolWidthBoundsCallsInFlight ==
    /\ [](/\ Cardinality(Running) <= max_workers
          /\ Len(futures) = Len(norms)
          /\ pc # "start" => \A f \in Futures : futures[f].state # "NEW")
    /\ [][\A f \in Futures :
             /\ futures[f].state = "RUNNING" => futures'[f].state # "PENDING"
             /\ futures[f].state = "FINISHED" => futures'[f] = futures[f]
             /\ futures[f].state # "NEW" => futures'[f].state # "NEW"]_vars

\* The pool is full and a submitted task waits for a worker
C28_Witness ==
    /\ Cardinality(Running) = max_workers
    /\ Pending # {}
    /\ pc = "collecting"

\* C29: every evaluation terminates: every submitted task is completed and
\* collected, then match_norms has returned or match_norms_streaming has
\* emitted its complete event.
C29_EveryEvaluationTerminates ==
    <>(/\ pc = "done"
       /\ \A f \in Futures : futures[f].state = "FINISHED"
       /\ yielded = Futures
       /\ IF mode = "streaming" THEN TheComplete.type = "complete"
          ELSE returned # NoValue)

\* An evaluation of MaxRules rules on one worker thread has ended, a task of
\* which timed out and another raised
C29_Witness ==
    /\ pc = "done"
    /\ Total = MaxRules /\ max_workers = 1
    /\ yielded = Futures
    /\ RaisedFutures # {}
    /\ \E f \in ReturnedFutures : ~futures[f].outcome.value.applies

\* C5: on every failure of call_openrouter, check_norm_applies raises nothing
\* and returns applies = False, confidence = 0 and a reasoning that carries
\* the cause of the failure.
C5_FailureDegradesToNotApplying ==
    (c_pc = "done" /\ c_transport.kind \in FailureKinds) =>
        /\ ~c_api.success
        /\ ~c_result.raised
        /\ c_result.value.applies = FALSE
        /\ c_result.value.confidence = 0
        /\ c_result.value.reasoning = <<"Error: ">> \o FailureCause(c_transport)
        /\ c_result.value.norm_id = TheNorm.id

C5_Witness ==
    /\ c_pc = "done"
    /\ c_transport.kind = "timeout"
    /\ c_result = Returned([norm_id |-> TheNorm.id, norm_name |-> TheNorm.name,
                            applies |-> FALSE, confidence |-> 0,
                            reasoning |-> <<"Error: ", "Request timed out after 30 seconds">>,
                            url |-> NoKey])

\* C6: every result check_norm_applies returns has 0 <= confidence <= 100,
\* whatever text the service returned.
C6_ConfidenceInRange ==
    (c_pc = "done" /\ ~c_result.raised) =>
        (c_result.value.confidence >= 0 /\ c_result.value.confidence <= 100)


\* The canonical layout: the three labeled lines in the order of the prompt
CanonicalLines(applies_line) ==
    <<applies_line, <<"CONFIDENCE:", SP, "8", "7">>, <<"REASONING:", SP, "w">>>>
AppliesLines == {<<"APPLIES:", SP, "yes">>, <<"APPLIES:", SP, "no">>}

\* The lines of a text that are not blank, each without the blanks around it
NonBlankLines(text) ==
    LET stripped == [i \in DOMAIN StrSplitLines(text, <<>>) |->
                        StrStrip(StrSplitLines(text, <<>>)[i])]
    IN SelectSeq(stripped, LAMBDA l : l # <<>>)

\* text is the canonical text but for blank lines, blanks around the lines
\* and the order of the three lines
IsLayoutVariant(text, canonical) ==
    /\ Len(NonBlankLines(text)) = Len(canonical)
    /\ \A i \in 1..Len(canonical) : canonical[i] \in Range(NonBlankLines(text))

\* C21: a response that differs from the canonical layout only by blanks,
\* blank lines, a missing trailing newline or the order of the three labeled
\* lines gives the applies, confidence and reasoning of the canonical layout.
C21_LayoutInsensitive ==
    (c_pc = "done" /\ c_transport.kind = "text") =>
        \A applies_line \in AppliesLines :
            IsLayoutVariant(c_transport.content, CanonicalLines(applies_line)) =>
                /\ ~c_result.raised
                /\ c_result.value =
                     ParseResponse(TheNorm,
                                   JoinWith(CanonicalLines(applies_line), NL) \o <<NL>>)

\* The lines of the response that carry the CONFIDENCE label
ConfidenceLines(text) ==
    {line \in Range(StrSplitLines(StrStrip(text), <<>>)) : InUpper("CONFIDENCE:", line)}

\* No number can be read from the line: it has no digit, or a character that
\* counts as a digit and is no decimal digit
NoNumberIn(line) ==
    \/ \A i \in 1..Len(line) : ~IsDigit(line[i])
    \/ \E i \in 1..Len(line) : line[i] = SUP2

\* C22: a successful text response with no CONFIDENCE line, or whose
\* CONFIDENCE lines carry no number that can be parsed, gives confidence 50
\* and check_norm_applies raises nothing.
C22_ConfidenceDefaultsTo50 ==
    (c_pc = "done" /\ c_transport.kind = "text"
        /\ \A line \in ConfidenceLines(c_transport.content) : NoNumberIn(line)) =>
        /\ ~c_result.raised
        /\ c_result.value.confidence = DefaultConfidence

\* A response whose CONFIDENCE line holds a digit character int() rejects,
\* next to an APPLIES line and a REASONING line
C22_Witness ==
    /\ c_pc = "done"
    /\ c_transport.kind = "text"
    /\ c_transport.content =
           JoinWith(<<<<"APPLIES:", SP, "yes">>, <<"CONFIDENCE:", SP, SUP2>>,
                      <<"REASONING:", SP, "w">>>>, NL)
    /\ ~c_result.raised
    /\ c_result.value.applies
    /\ c_result.value.confidence = DefaultConfidence

-----------------------------------------------------------------------------
(* Claims about entitlement lookup, checked under SpecEntitle *)

\* What the resolution gives on the rows the store holds for the tenant
DirectlyAllowed(t_now) ==
    AllowedDatabases(SelectStatus(store, "active") \o SelectStatus(store, "trial"),
                     t_now)

PackagesGot(k) == IF k = "active" THEN e_active ELSE e_trial

\* C7: when the store query raises and nothing is cached, get_user_packages
\* returns the empty list; when both lookups fail so, get_allowed_databases
\* returns exactly the free partition set; a call always returns a value, and
\* that value never holds a partition the store's rows do not grant.
C7_StoreFailureFailsClosed ==
    /\ \A k \in CacheKeys : e_used[k] = "failed" => PackagesGot(k) = <<>>
    /\ e_pc = "done" =>
         /\ e_result # NoValue
         /\ (\A k \in CacheKeys : e_used[k] = "failed")
               => e_result.databases = FREE_DATABASES
         /\ e_result.databases \subseteq DirectlyAllowed(e_result.at)

C7_Witness ==
    /\ e_pc = "done"
    /\ \A k \in CacheKeys : e_used[k] = "failed"
    /\ DirectlyAllowed(e_result.at) = ALL_DATABASE_FILES
    /\ Len(SelectStatus(store, "trial")) > 0
    /\ e_result.databases = FREE_DATABASES

\* The rows of the tenant with status active or trial that are accessible
\* at time t_now
AccessibleRows(t_now) ==
    {r \in Range(store) : r.status \in CacheKeys /\ is_package_accessible(r, t_now)}

GrantsAll(r) == r.package_type \in PackageTypes /\ PACKAGES(r.package_type).all

\* The databases a row's package names
DatabasesOf(r) ==
    IF r.package_type \in PackageTypes /\ ~PACKAGES(r.package_type).all
    THEN PACKAGES(r.package_type).databases ELSE {}

NoLookupFailed == \A k \in CacheKeys : e_used[k] # "failed"

\* C11: when no accessible entitlement of the tenant grants ALL, the result of
\* get_allowed_databases is exactly the free set united with the databases of
\* every accessible active or trial entitlement of the tenant.
C11_ExactUnionOfAccessible ==
    (/\ e_pc = "done" /\ NoLookupFailed
     /\ \A r \in AccessibleRows(e_result.at) : ~GrantsAll(r))
    => e_result.databases =
         FREE_DATABASES \cup UNION {DatabasesOf(r) : r \in AccessibleRows(e_result.at)}

C11_Witness ==
    /\ e_pc = "done" /\ NoLookupFailed
    /\ Len(store) = 2
    /\ store[1].status = "trial" /\ store[2].status = "active"
    /\ e_result.databases =
         {"norms.json", "norms_us.json", "norms_iso.json", "norms_iec.json"}

\* C12: when the tenant has an accessible entitlement that grants ALL, the
\* result of get_allowed_databases is the full catalog, whatever the other
\* entitlements and their order are.
C12_BundleGivesFullCatalog ==
    (/\ e_pc = "done"
     /\ \E r \in AccessibleRows(e_result.at) :
          GrantsAll(r) /\ e_used[r.status] # "failed")
    => e_result.databases = ALL_DATABASE_FILES

C12_Witness ==
    /\ e_pc = "done"
    /\ Len(store) = 2
    /\ ~GrantsAll(store[1]) /\ store[1] \in AccessibleRows(e_result.at)
    /\ GrantsAll(store[2]) /\ store[2] \in AccessibleRows(e_result.at)
    /\ e_result.databases = ALL_DATABASE_FILES

\* C14: a lookup the cache did not answer (Redis absent, redis.get raising or
\* missing the key, redis.setex raising or not) returns what the store query
\* returns; without Redis no lookup is answered by the cache; and a resolution
\* whose lookups all read the store gives what the store's rows give.
C14_CacheIsNoCorrectnessDependency ==
    /\ \A k \in CacheKeys :
         /\ e_used[k] = "store" => PackagesGot(k) = SelectStatus(store, k)
         /\ ~redis.present => e_used[k] # "cache"
    /\ (e_pc = "done" /\ \A k \in CacheKeys : e_used[k] = "store")
         => e_result.databases = DirectlyAllowed(e_result.at)

\* Both cache writes raised: Redis is there, no time has passed, the keys are
\* still missing, and the result is the one of the store's rows
C14_Witness ==
    /\ e_pc = "done" /\ now = 0
    /\ redis.present
    /\ \A k \in CacheKeys : redis.data[k] = Missing /\ e_used[k] = "store"
    /\ Len(e_active) > 0 /\ Len(e_trial) > 0
    /\ e_result.databases = DirectlyAllowed(0)
    /\ e_result.databases # FREE_DATABASES

-----------------------------------------------------------------------------
(* Claims about cache invalidation, checked under SpecInvalidate *)

\* The databases a package type grants
GrantedBy(package_type) ==
    IF PACKAGES(package_type).all THEN ALL_DATABASE_FILES
    ELSE PACKAGES(package_type).databases

\* Some accessible row of another package grants the database
GrantedElsewhere(db, package_type) ==
    \E r \in AccessibleRows(e_result.at) :
        r.package_type # package_type /\ db \in GrantedBy(r.package_type)

InvalidationEffective ==
    /\ redis.present => k_mut.deletes = "ok"
    /\ ~k_reader.overtaken

-----------------------------------------------------------------------------
(* Claims about loading rule partitions, checked under SpecLoad *)

\* The file is there, is a JSON document, and its norms are rule objects
GoodFile(disk, db) ==
    /\ disk[db].kind = "json"
    /\ \A j \in 1..Len(disk[db].norms) : disk[db].norms[j].dict

\* The rules of a partition, in file order; none from a broken partition
RulesOf(disk, db) ==
    IF GoodFile(disk, db)
    THEN [j \in 1..Len(disk[db].norms) |->
            [id |-> disk[db].norms[j].id, source_database |-> db]]
    ELSE <<>>

RECURSIVE ExpectedRules(_, _)
ExpectedRules(disk, names) ==
    IF names = <<>> THEN <<>>
    ELSE RulesOf(disk, Head(names)) \o ExpectedRules(disk, Tail(names))

\* C17: a load_norms call, and a get_norms call on a cache holding none of
\* the requested partitions, returns the rules of every readable partition
\* requested, in order, and nothing for a missing or malformed one.
C17_BrokenPartitionsAreSkipped ==
    \A j \in 1..Len(n_calls) :
        (n_calls[j].disk_same /\ n_calls[j].cold) =>
            n_calls[j].result = ExpectedRules(n_disk, n_calls[j].names)

C17_Witness ==
    /\ Len(n_calls) = 2
    /\ n_disk["norms_us.json"] = JsonFile(<<RuleItem(2), ScalarItem>>)
    /\ n_calls[1].fn = "load_norms" /\ n_calls[2].fn = "get_norms"
    /\ \A j \in 1..2 :
         /\ n_calls[j].disk_same /\ n_calls[j].cold
         /\ n_calls[j].names = <<"norms_us.json", "norms.json">>
         /\ n_calls[j].result = <<[id |-> 1, source_database |-> "norms.json"]>>

\* No requested partition was invalidated between call i and the later call j
NoInvalidateBetween(i, j) ==
    \A k \in (i + 1)..j : n_calls[k].fresh \cap Range(n_calls[j].names) = {}

\* C18: two loads of the same partition list by the same function, with no
\* invalidate in between, return the same rule list, also when the files
\* changed between the two calls.
C18_LoadIsIdempotent ==
    \A i \in 1..Len(n_calls) : \A j \in (i + 1)..Len(n_calls) :
        (/\ n_calls[i].fn = n_calls[j].fn
         /\ n_calls[i].names = n_calls[j].names
         /\ NoInvalidateBetween(i, j))
        => n_calls[i].result = n_calls[j].result

\* What a call returned for one partition
PartOf(call, db) == SelectSeq(call.result, LAMBDA r : r.source_database = db)

\* Call j is a get_norms call that asked for the partition
AskedCache(j, db) == n_calls[j].fn = "get_norms" /\ db \in Range(n_calls[j].names)

\* C30: a failed load is cached as an empty partition.  After a get_norms
\* call that got no rule for a partition, every later get_norms call returns
\* no rule for it while it is not invalidated, also when the file has become
\* valid, and the disk is not read again; the first get_norms call after an
\* invalidate of the partition reads the file again and returns its rules.
C30_FailedLoadIsCachedAsEmpty ==
    \A db \in Partitions :
        /\ \A i \in 1..Len(n_calls) : \A j \in (i + 1)..Len(n_calls) :
             (/\ AskedCache(i, db) /\ AskedCache(j, db)
              /\ PartOf(n_calls[i], db) = <<>>
              /\ \A k \in (i + 1)..j : db \notin n_calls[k].fresh)
             => /\ PartOf(n_calls[j], db) = <<>>
                /\ (j = Len(n_calls) /\ db \notin n_invalidated) => n_reads[db] <= 1
        /\ \A j \in 1..Len(n_calls) :
             (AskedCache(j, db) /\ db \in n_calls[j].fresh)
             => /\ n_calls[j].disk_same => PartOf(n_calls[j], db) = RulesOf(n_disk, db)
                /\ (j = Len(n_calls) /\ db \notin n_invalidated) => n_reads[db] = 1

\* The file was missing at the first get_norms call and is valid at the
\* second, which still returns no rule and does not read the disk
C30_Witness ==
    /\ Len(n_calls) = 2
    /\ AskedCache(1, "norms_us.json") /\ AskedCache(2, "norms_us.json")
    /\ PartOf(n_calls[1], "norms_us.json") = <<>>
    /\ ~n_calls[1].disk_same
    /\ "norms_us.json" \notin n_calls[2].fresh
    /\ GoodFile(n_disk, "norms_us.json") /\ RulesOf(n_disk, "norms_us.json") # <<>>
    /\ n_calls[2].disk_same
    /\ PartOf(n_calls[2], "norms_us.json") = <<>>
    /\ n_reads["norms_us.json"] = 1

-----------------------------------------------------------------------------
(* Claims about NormDatabaseCache under threads, checked under SpecNormCache *)

\* The thread got the partition's rules and the partition has not been
\* invalidated since
GotCurrent(t, db) == n_threads[t].got[db] # Absent /\ n_threads[t].got[db].current

\* C15: between two invalidations each partition is read from disk at most
\* once, however the threads interleave, and the threads that got a
\* partition's rules with no invalidation in between got the same list.
C15_OneDiskReadPerPartition ==
    /\ \A db \in Partitions : n_reads[db] <= 1
    /\ \A db \in Partitions : \A t1 \in Threads, t2 \in Threads :
         (GotCurrent(t1, db) /\ GotCurrent(t2, db))
             => n_threads[t1].got[db].norms = n_threads[t2].got[db].norms

\* Two threads started on the cold cache, one read the file, the file then
\* changed, and both hold the rules of the one read
C15_Witness ==
    /\ n_disk["norms_us.json"] = NewFile
    /\ n_reads["norms_us.json"] = 1
    /\ \A t \in {1, 2} :
         /\ n_threads[t].pc = "done"
         /\ GotCurrent(t, "norms_us.json")
         /\ n_threads[t].got["norms_us.json"].norms =
                RulesOf([n_disk EXCEPT !["norms_us.json"] = OldFile], "norms_us.json")

\* The rule lists a read of the partition can give while the threads run
LoadableRules(db) ==
    {load_from_disk([n_disk EXCEPT !["norms_us.json"] = file], db) :
        file \in {OldFile, NewFile}}

\* C16: in every interleaving of invalidate with get_norms calls, get_norms
\* does not raise and returns, for each requested partition, that partition's
\* rules as loaded from disk.
C16_InvalidateIsThreadSafe ==
    \A t \in Threads :
        /\ n_threads[t].pc # "raised"
        /\ n_threads[t].pc = "done" =>
             \A db \in Range(n_threads[t].names) :
                 /\ n_threads[t].got[db] # Absent
                 /\ n_threads[t].got[db].norms \in LoadableRules(db)

-----------------------------------------------------------------------------
(* Claims about _get_package_for_database, checked under SpecAttribute *)

\* The package types of the rows the call got that cover the partition by
\* their own list, and those that cover it as a bundle of everything
SpecificCovering ==
    {u_packages[i].package_type : i \in {j \in 1..Len(u_packages) :
        /\ u_packages[j].package_type \in PackageTypes
        /\ ~PACKAGES(u_packages[j].package_type).all
        /\ u_database \in PACKAGES(u_packages[j].package_type).databases}}
BundlesHeld ==
    {u_packages[i].package_type : i \in {j \in 1..Len(u_packages) :
        /\ u_packages[j].package_type \in PackageTypes
        /\ PACKAGES(u_packages[j].package_type).all}}

\* C20: a free partition is attributed to no package; a paid partition
\* covered by a specific package of the tenant is attributed to a specific
\* package, whatever the order of the records and also when the tenant holds
\* a bundle of everything; it is attributed to the bundle only when no
\* specific package covers it.
C20_SpecificPackagePreferred ==
    u_pc = "done" =>
        IF u_database \in FREE_DATABASES THEN u_result = NoPackage
        ELSE IF SpecificCovering # {} THEN u_result \in SpecificCovering
        ELSE IF BundlesHeld # {} THEN u_result \in BundlesHeld
        ELSE u_result = NoPackage

\* C24: after deactivate_package returned True the tenant has no accessible
\* entitlement of that package type, whether it was active or in trial, and
\* a get_allowed_databases call made afterwards holds no database that only
\* this package granted.
C24_DeactivatedIsNotAccessible ==
    (k_mut.op = "deactivate" /\ k_mut.pc = "returned" /\ k_mut.outcome = "ok") =>
        /\ \A j \in 1..Len(store) :
               store[j].package_type = k_mut.package_type
                   => ~is_package_accessible(store[j], now)
        /\ (e_pc = "done" /\ NoLookupFailed /\ InvalidationEffective) =>
               \A db \in GrantedBy(k_mut.package_type) \ FREE_DATABASES :
                   GrantedElsewhere(db, k_mut.package_type)
                       \/ db \notin e_result.databases

\* The expiry of the record has passed at time t: expires_at of an active
\* record, trial_end of a trial record
HasPassed(r, t) ==
    \/ r.status = "active" /\ r.expires_at.kind = "iso" /\ r.expires_at.t <= t
    \/ r.status = "trial" /\ r.trial_end.kind = "iso" /\ r.trial_end.t <= t

\* C27: expiry is evaluated when get_allowed_databases resolves, on every
\* record it got, cached or not: every paid database of the result is
\* granted by a record whose expiry has not passed at that time.
C27_CacheNeverExtendsAccess ==
    e_pc = "done" =>
        \A db \in e_result.databases \ FREE_DATABASES :
            \E j \in 1..Len(e_active \o e_trial) :
                LET r == (e_active \o e_trial)[j]
                IN /\ ~HasPassed(r, e_result.at)
                   /\ r.package_type \in PackageTypes
                   /\ db \in GrantedBy(r.package_type)

\* The active rows came from the cache, the us_box row among them expired
\* while it was cached, and the result does not hold its database
C27_Witness ==
    /\ e_pc = "done"
    /\ e_used["active"] = "cache"
    /\ redis.data["active"] # Missing
    /\ \E j \in 1..Len(e_active) :
          /\ e_active[j].package_type = "us_box"
          /\ HasPassed(e_active[j], e_result.at)
    /\ "norms_us.json" \notin e_result.databases

-----------------------------------------------------------------------------
(* Claims about cache staleness, checked under SpecStale *)

\* C26: when the rows of the tenant changed in the store without an
\* invalidation, every get_user_packages call that starts more than the TTL
\* after the change, and whose query does not fail, returns the rows the
\* store holds.
C26_StalenessBoundedByTtl ==
    (e_pc = "done" /\ k_mut.op = "convert"
        /\ e_result.at > k_mut.at + CacheTtlSeconds
        /\ e_result.source # "failed") =>
        e_result.packages = SelectStatus(store, e_result.status)

-----------------------------------------------------------------------------
(* Claims about concurrent activate_package calls, checked under SpecActivate *)

\* The rows of the package type that count as held: active or trial
HeldRows(rows, package_type) ==
    SelectSeq(rows, LAMBDA r : r.package_type = package_type
                              /\ r.status \in {"active", "trial"})

\* C23: the tenant never holds two entitlements of the same package type
\* with status active or trial, however the activate_package calls for that
\* type interleave and also when the existence check is served from the
\* cache; a call that finds one raises PackageAlreadyActiveError.
C23_NoDuplicateEntitlement ==
    Len(HeldRows(store, WebhookPackage)) <= 1

-----------------------------------------------------------------------------
(* Claims about _is_package_accessible, checked under SpecAccess *)

AccessChecked == a_pc \in {"checked", "done"}

\* The timestamp is a valid one and later than the time t_now
Later(ts, t_now) == ts.kind = "iso" /\ ts.t > t_now

\* C8: a record whose status is neither active nor trial is not accessible,
\* whatever its expires_at and trial_end, and the resolution over a list that
\* holds it adds nothing to the free partition set.
C8_OtherStatusesNeverAccessible ==
    (AccessChecked /\ a_package.status \notin {"active", "trial"}) =>
        /\ ~a_result.accessible
        /\ a_pc = "done" => a_result.databases = FREE_DATABASES

C8_Witness ==
    /\ a_pc = "done"
    /\ a_package.status = "cancelled"
    /\ a_package.package_type = "mega_bundle"
    /\ a_package.is_trial
    /\ Later(a_package.expires_at, a_now)
    /\ Later(a_package.trial_end, a_now)
    /\ ~a_result.accessible
    /\ a_result.databases = FREE_DATABASES

\* C9: an active record is accessible exactly when expires_at is null or
\* later than the current time, for every value of expires_at.
C9_ActiveAccessibleIffNullOrLater ==
    (AccessChecked /\ a_package.status = "active") =>
        (a_result.accessible <=>
            (a_package.expires_at = Null \/ Later(a_package.expires_at, a_now)))

\* C10 as stated: a trial record is accessible exactly when trial_end is
\* later than the current time, whatever its other fields.
C10_TrialAccessibleIffTrialEndLater ==
    (AccessChecked /\ a_package.status = "trial") =>
        (a_result.accessible <=> Later(a_package.trial_end, a_now))

\* C10: a trial record is accessible exactly when its is_trial flag is set
\* and trial_end is a valid timestamp later than the current time.
C10_TrialAccessibleIffFlagAndLater ==
    (AccessChecked /\ a_package.status = "trial") =>
        (a_result.accessible <=>
            (a_package.is_trial /\ Later(a_package.trial_end, a_now)))

C10_Witness ==
    /\ AccessChecked
    /\ a_package.status = "trial"
    /\ a_package.is_trial
    /\ Later(a_package.trial_end, a_now)
    /\ a_package.expires_at = Iso(0) /\ a_now > 0
    /\ a_result.accessible

====
